---- MODULE Spec2Model ----
(***************************************************************************)
(* Budget-buddy: the ledger reconciliation engine (duplicate-receipt       *)
(* detection over the flat "Receipts" sheet) and the period aggregation    *)
(* engine (category normalisation, budget windows, budget status), as      *)
(* implemented in backend/app/services/sheets_service.py and               *)
(* backend/app/services/analysis_service.py.                               *)
(*                                                                         *)
(* Text is modelled as Python sees it: a string is a sequence of character *)
(* codes (ASCII), so that lower(), strip(), split(), endswith(), the       *)
(* regular expressions and the fuzzy ratios are computed, not assumed.     *)
(* Money is kept in thousandths of a currency unit (5.50 is 5500), one     *)
(* digit finer than the two decimals the code rounds to.                   *)
(***************************************************************************)
EXTENDS Integers, Sequences, FiniteSets, TLC

(***************************************************************************)
(* Characters and strings                                                  *)
(***************************************************************************)

\* The printable ASCII characters in code order: Printable[i] has code 31 + i
\* (the double quote, the backslash and the backtick are named, not written).
Printable ==
   << 
      " ", "!", "<dquote>", "#", "$", "%", "&", "'", "(", ")", "*", "+", ",", "-", ".", "/",
      "0", "1", "2", "3", "4", "5", "6", "7", "8", "9", ":", ";", "<", "=", ">", "?",
      "@", "A", "B", "C", "D", "E", "F", "G", "H", "I", "J", "K", "L", "M", "N", "O",
      "P", "Q", "R", "S", "T", "U", "V", "W", "X", "Y", "Z", "[", "<bslash>", "]", "^", "_",
      "<btick>", "a", "b", "c", "d", "e", "f", "g", "h", "i", "j", "k", "l", "m", "n", "o",
      "p", "q", "r", "s", "t", "u", "v", "w", "x", "y", "z", "{", "|", "}", "~"
   >>

Ord(c) == 31 + (CHOOSE i \in 1..Len(Printable) : Printable[i] = c)

\* S(<<"a", "b">>) is the string "ab" as a sequence of character codes.
S(chars) == [i \in 1..Len(chars) |-> Ord(chars[i])]

EmptyStr == << >>

\* Python's str.isspace() on one ASCII character: space, tab, newline, vertical tab, form feed, return.
IsSpace(c) == c \in {32, 9, 10, 11, 12, 13}

\* A character the regular expression \w matches: letter, digit, underscore.
IsWord(c) == (c \in 48..57) \/ (c \in 65..90) \/ (c \in 97..122) \/ (c = 95)

LowerChar(c) == IF c \in 65..90 THEN c + 32 ELSE c

UpperChar(c) == IF c \in 97..122 THEN c - 32 ELSE c

\* str.lower() and str.upper()
StrLower(s) == [i \in 1..Len(s) |-> LowerChar(s[i])]

StrUpper(s) == [i \in 1..Len(s) |-> UpperChar(s[i])]

\* str.strip(): drop the leading and the trailing whitespace.
StrStrip(s) ==
   LET keep == {i \in 1..Len(s) : ~IsSpace(s[i])}
   IN  IF keep = {} THEN EmptyStr
       ELSE LET lo == CHOOSE i \in keep : \A j \in keep : i <= j
                hi == CHOOSE i \in keep : \A j \in keep : j <= i
            IN  SubSeq(s, lo, hi)

\* str.endswith(suffix)
EndsWith(s, suffix) ==
   /\ Len(suffix) <= Len(s)
   /\ SubSeq(s, Len(s) - Len(suffix) + 1, Len(s)) = suffix

\* s[:-n] for 0 < n
DropLast(s, n) == IF n >= Len(s) THEN EmptyStr ELSE SubSeq(s, 1, Len(s) - n)

(***************************************************************************)
(* CategoryNormalizer: SheetsService._normalize_category                   *)
(***************************************************************************)

SuffixIes == S(<<"i", "e", "s">>)

SuffixY == S(<<"y">>)

SuffixS == S(<<"s">>)

SuffixSs == S(<<"s", "s">>)

\* A plausible slip: the "ss" guard left out, so "glass" loses an "s".
NormalizeCategoryNoGuard(category) ==
   LET normalized == StrStrip(StrLower(category))
   IN  IF EndsWith(normalized, SuffixIes)
       THEN DropLast(normalized, 3) \o SuffixY
       ELSE IF EndsWith(normalized, SuffixS)
            THEN DropLast(normalized, 1)
            ELSE normalized

\* A plausible slip: words of three letters or fewer keep their final "s".
NormalizeCategoryKeepShort(category) ==
   LET normalized == StrStrip(StrLower(category))
   IN  IF EndsWith(normalized, SuffixIes)
       THEN DropLast(normalized, 3) \o SuffixY
       ELSE IF /\ EndsWith(normalized, SuffixS)
               /\ ~EndsWith(normalized, SuffixSs)
               /\ Len(normalized) > 3
            THEN DropLast(normalized, 1)
            ELSE normalized

normalize_category(category) ==
   LET normalized == StrStrip(StrLower(category))
   IN  IF EndsWith(normalized, SuffixIes)
       THEN DropLast(normalized, 3) \o SuffixY
       ELSE IF /\ EndsWith(normalized, SuffixS)
               /\ ~EndsWith(normalized, SuffixSs)
            THEN DropLast(normalized, 1)
            ELSE normalized

(***************************************************************************)
(* Numbers                                                                 *)
(***************************************************************************)

Abs(x) == IF x < 0 THEN -x ELSE x

Max2(x, y) == IF x >= y THEN x ELSE y

\* Python's round() of the exact quotient num/den (den > 0, num >= 0):
\* to the nearest integer, a tie to the even one.
RoundHalfEven(num, den) ==
   LET q == num \div den
       r == num % den
   IN  IF 2 * r < den THEN q
       ELSE IF 2 * r > den THEN q + 1
       ELSE IF q % 2 = 0 THEN q ELSE q + 1

RECURSIVE SumSeq(_)
SumSeq(s) == IF s = << >> THEN 0 ELSE Head(s) + SumSeq(Tail(s))

(***************************************************************************)
(* str.split(), " ".join(sorted(...))                                      *)
(***************************************************************************)

\* str.split() with no argument: the maximal runs of non-whitespace, in order.
RECURSIVE SplitFrom(_, _, _)
SplitFrom(s, i, cur) ==
   IF i > Len(s)
   THEN IF cur = EmptyStr THEN << >> ELSE << cur >>
   ELSE IF IsSpace(s[i])
        THEN IF cur = EmptyStr
             THEN SplitFrom(s, i + 1, EmptyStr)
             ELSE << cur >> \o SplitFrom(s, i + 1, EmptyStr)
        ELSE SplitFrom(s, i + 1, Append(cur, s[i]))

StrSplit(s) == SplitFrom(s, 1, EmptyStr)

\* Python's string order: by code, a proper prefix first.
RECURSIVE StrLess(_, _)
StrLess(a, b) ==
   IF b = EmptyStr THEN FALSE
   ELSE IF a = EmptyStr THEN TRUE
   ELSE IF Head(a) # Head(b) THEN Head(a) < Head(b)
   ELSE StrLess(Tail(a), Tail(b))

\* sorted(tokens) for a set of strings
RECURSIVE SortedTokens(_)
SortedTokens(tokens) ==
   IF tokens = {} THEN << >>
   ELSE LET least == CHOOSE t \in tokens : \A u \in tokens \ {t} : StrLess(t, u)
        IN  << least >> \o SortedTokens(tokens \ {least})

\* " ".join(parts)
RECURSIVE JoinSpace(_)
JoinSpace(parts) ==
   IF parts = << >> THEN EmptyStr
   ELSE IF Len(parts) = 1 THEN parts[1]
   ELSE parts[1] \o << 32 >> \o JoinSpace(Tail(parts))

SeqToSet(s) == {s[i] : i \in DOMAIN s}

(***************************************************************************)
(* fuzzywuzzy, as the service calls it: fuzz.ratio and fuzz.token_set_ratio*)
(***************************************************************************)

\* Length of the longest common subsequence, by rows of the usual table:
\* prev[j + 1] is the value for the first i - 1 characters of a and the
\* first j of b.
RECURSIVE LcsFill(_, _, _, _, _)
LcsFill(a, b, i, prev, cur) ==
   IF Len(cur) = Len(b) + 1 THEN cur
   ELSE LET j == Len(cur)
            v == IF a[i] = b[j] THEN prev[j] + 1
                 ELSE Max2(prev[j + 1], cur[j])
        IN  LcsFill(a, b, i, prev, Append(cur, v))

RECURSIVE LcsRows(_, _, _, _)
LcsRows(a, b, i, prev) ==
   IF i > Len(a) THEN prev[Len(b) + 1]
   ELSE LcsRows(a, b, i + 1, LcsFill(a, b, i, prev, << 0 >>))

Lcs(a, b) == LcsRows(a, b, 1, [j \in 1..(Len(b) + 1) |-> 0])

\* The length of the common run of a from i and b from j, inside the windows.
RECURSIVE RunLen(_, _, _, _, _, _)
RunLen(a, b, i, j, ahi, bhi) ==
   IF i > ahi \/ j > bhi \/ a[i] # b[j] THEN 0
   ELSE 1 + RunLen(a, b, i + 1, j + 1, ahi, bhi)

\* difflib.SequenceMatcher.get_matching_blocks, total size: the longest block
\* of a[alo..ahi] and b[blo..bhi] (the earliest in a, then the earliest in b),
\* then the same to its left and to its right.
RECURSIVE BlocksSize(_, _, _, _, _, _)
BlocksSize(a, b, alo, ahi, blo, bhi) ==
   IF alo > ahi \/ blo > bhi THEN 0
   ELSE LET pairs  == {p \in (alo..ahi) \X (blo..bhi) : a[p[1]] = b[p[2]]}
        IN  IF pairs = {} THEN 0
            ELSE
            LET k      == [p \in pairs |-> RunLen(a, b, p[1], p[2], ahi, bhi)]
                sizes  == {k[p] : p \in pairs}
                size   == CHOOSE n \in sizes : \A m \in sizes : m <= n
                starts == {p \in pairs : k[p] = size}
                i      == CHOOSE x \in {p[1] : p \in starts} :
                             \A p \in starts : x <= p[1]
                j      == CHOOSE y \in {p[2] : p \in {q \in starts : q[1] = i}} :
                             \A p \in {q \in starts : q[1] = i} : y <= p[2]
            IN  size
                + BlocksSize(a, b, alo, i - 1, blo, j - 1)
                + BlocksSize(a, b, i + size, ahi, j + size, bhi)

\* The number of matched characters M of SequenceMatcher.ratio() = 2M / T.
\* fuzzywuzzy takes python-Levenshtein's matcher when it is installed (the
\* edit distance with substitutions at cost 2, so M is the longest common
\* subsequence) and difflib's otherwise.
MatchedChars(a, b, matcher) ==
   IF matcher = "levenshtein" THEN Lcs(a, b)
   ELSE BlocksSize(a, b, 1, Len(a), 1, Len(b))

\* fuzz.ratio: 100 for equal strings, 0 when one is empty, else
\* int(round(100 * 2M / T)).
FuzzRatio(s1, s2, matcher) ==
   IF s1 = s2 THEN 100
   ELSE IF Len(s1) = 0 \/ Len(s2) = 0 THEN 0
   ELSE RoundHalfEven(200 * MatchedChars(s1, s2, matcher), Len(s1) + Len(s2))

\* A plausible slip: punctuation deleted instead of replaced by a space.
FullProcessDeleting(s) ==
   StrStrip(StrLower(SelectSeq(s, IsWord)))

\* utils.full_process: every non-word character becomes a space, then
\* lower-case, then strip.
full_process(s) ==
   StrStrip(StrLower([i \in 1..Len(s) |-> IF IsWord(s[i]) THEN s[i] ELSE 32]))

\* fuzz.token_set_ratio(s1, s2)
token_set_ratio(s1, s2, matcher) ==
   LET p1 == full_process(s1)
       p2 == full_process(s2)
   IN  IF Len(p1) = 0 \/ Len(p2) = 0 THEN 0
       ELSE
       LET tokens1       == SeqToSet(StrSplit(p1))
           tokens2       == SeqToSet(StrSplit(p2))
           sorted_sect0  == JoinSpace(SortedTokens(tokens1 \cap tokens2))
           sorted_1to2   == JoinSpace(SortedTokens(tokens1 \ tokens2))
           sorted_2to1   == JoinSpace(SortedTokens(tokens2 \ tokens1))
           sorted_sect   == StrStrip(sorted_sect0)
           combined_1to2 == StrStrip(sorted_sect0 \o << 32 >> \o sorted_1to2)
           combined_2to1 == StrStrip(sorted_sect0 \o << 32 >> \o sorted_2to1)
       IN  Max2(FuzzRatio(sorted_sect, combined_1to2, matcher),
                Max2(FuzzRatio(sorted_sect, combined_2to1, matcher),
                     FuzzRatio(combined_1to2, combined_2to1, matcher)))

(***************************************************************************)
(* Dates: datetime.strptime, date ordinals, weekdays                       *)
(***************************************************************************)

IsDigit(c) == c \in 48..57

IsLeap(y) == (y % 4 = 0) /\ ((y % 100 # 0) \/ (y % 400 = 0))

DaysInMonth(y, m) ==
   IF m = 2 THEN (IF IsLeap(y) THEN 29 ELSE 28)
   ELSE IF m \in {4, 6, 9, 11} THEN 30 ELSE 31

\* Days of the year before the first of month m.
RECURSIVE DaysBeforeMonth(_, _)
DaysBeforeMonth(y, m) ==
   IF m <= 1 THEN 0 ELSE DaysBeforeMonth(y, m - 1) + DaysInMonth(y, m - 1)

\* date.toordinal(): 0001-01-01 is day 1.
Ordinal(y, m, d) ==
   LET p == y - 1
   IN  p * 365 + (p \div 4) - (p \div 100) + (p \div 400) + DaysBeforeMonth(y, m) + d

\* date.weekday(): Monday is 0.
Weekday(ord) == (ord + 6) % 7

\* The decimal value of a string of digits.
RECURSIVE DigitsValue(_)
DigitsValue(s) ==
   IF s = EmptyStr THEN 0
   ELSE 10 * DigitsValue(DropLast(s, 1)) + (s[Len(s)] - 48)

\* The fields of s between the hyphens.
RECURSIVE HyphenFields(_, _, _)
HyphenFields(s, i, cur) ==
   IF i > Len(s) THEN << cur >>
   ELSE IF s[i] = 45 THEN << cur >> \o HyphenFields(s, i + 1, EmptyStr)
   ELSE HyphenFields(s, i + 1, Append(cur, s[i]))

AllDigits(s) == \A i \in 1..Len(s) : IsDigit(s[i])

NoDate == [ok |-> FALSE, y |-> 0, m |-> 0, d |-> 0]

\* datetime.strptime(s, "%d-%m-%Y") for fmt = "dmy" and
\* datetime.strptime(s, "%Y-%m-%d") for fmt = "ymd": %d and %m take one or two
\* digits (not zero), %Y exactly four, the whole string must be consumed and
\* the date must exist; NoDate stands for the ValueError.
Strptime(s, fmt) ==
   LET f == HyphenFields(s, 1, EmptyStr)
   IN  IF Len(f) # 3 \/ \E i \in 1..3 : (f[i] = EmptyStr \/ ~AllDigits(f[i]))
       THEN NoDate
       ELSE
       LET fy == IF fmt = "dmy" THEN f[3] ELSE f[1]
           fd == IF fmt = "dmy" THEN f[1] ELSE f[3]
           y  == DigitsValue(fy)
           m  == DigitsValue(f[2])
           d  == DigitsValue(fd)
       IN  IF /\ Len(fy) = 4
              /\ Len(f[2]) <= 2
              /\ Len(fd) <= 2
              /\ y >= 1
              /\ m \in 1..12
              /\ d >= 1
              /\ d <= DaysInMonth(y, m)
           THEN [ok |-> TRUE, y |-> y, m |-> m, d |-> d]
           ELSE NoDate

\* A plausible slip: the candidate's date parsed with the ledger's fallback.
ParseReceiptDateWithFallback(purchase_date) ==
   LET first == Strptime(purchase_date, "dmy")
   IN  IF first.ok THEN first ELSE Strptime(purchase_date, "ymd")

\* find_duplicate_receipts, lines 189-197: the candidate's date is parsed as
\* dd-mm-yyyy only.
ParseReceiptDate(purchase_date) == Strptime(purchase_date, "dmy")

\* The nested parse_date of find_duplicate_receipts and the row loop of
\* calculate_budget_spending: dd-mm-yyyy first, then yyyy-mm-dd, else nothing.
parse_date(date_str) ==
   LET first == Strptime(date_str, "dmy")
   IN  IF first.ok THEN first ELSE Strptime(date_str, "ymd")

DateOrdinal(dt) == Ordinal(dt.y, dt.m, dt.d)

(***************************************************************************)
(* The "Receipts" sheet: one row per line item                             *)
(***************************************************************************)

\* A Merchant cell as get_all_records returns it: text, or a number.
TextCell(s) == [isText |-> TRUE, text |-> s]

NumberAsMerchant(digits) == [isText |-> FALSE, text |-> digits]

\* A Grand Total or Total Price cell: a number (in thousandths), or blank /
\* not numeric.
NumCell(n) == [isNum |-> TRUE, num |-> n]

BlankCell == [isNum |-> FALSE, num |-> 0]

\* save_receipt, lines 131-146: the rows of a receipt, one per line item; the
\* receipt's date, merchant, tax, total and payment are repeated on each.
ReceiptRows(receipt) ==
   [i \in 1..Len(receipt.line_items) |->
      [Date       |-> receipt.purchase_date,
       Merchant   |-> TextCell(receipt.merchant_details.name),
       Address    |-> receipt.merchant_details.address,
       Item       |-> receipt.line_items[i].item_name,
       Category   |-> receipt.line_items[i].category,
       Qty        |-> receipt.line_items[i].quantity,
       UnitPrice  |-> receipt.line_items[i].unit_price,
       TotalPrice |-> NumCell(receipt.line_items[i].price),
       Tax        |-> receipt.total_amounts.tax,
       GrandTotal |-> NumCell(receipt.total_amounts.total),
       Payment    |-> receipt.total_amounts.payment_method]]

(***************************************************************************)
(* DuplicateDetector: SheetsService.find_duplicate_receipts                *)
(***************************************************************************)

threshold_days == 1

fuzzy_threshold == 85

ItemSimilarityThreshold == 85

DuplicatePercentage == 70

\* 0.01, in thousandths
TotalTolerance == 10

\* A float after pd.to_numeric(..., errors='coerce'): a number or NaN.
NaN == [nan |-> TRUE, v |-> 0]

Float(v) == [nan |-> FALSE, v |-> v]

to_numeric(cell) == IF cell.isNum THEN Float(cell.num) ELSE NaN

\* f"{x:.2f}": "nan", or the sign and the hundredths.
Format2f(x) ==
   IF x.nan THEN [nan |-> TRUE, neg |-> FALSE, hundredths |-> 0]
   ELSE [nan |-> FALSE, neg |-> x.v < 0, hundredths |-> RoundHalfEven(Abs(x.v), 10)]

\* Lines 319-321: amount_diff = abs(total_amount - existing_total);
\* amount_diff > 0.01.  With existing_total NaN the difference is NaN and the
\* comparison is False.
AmountDiffTooLarge(total_amount, existing_total) ==
   IF existing_total.nan THEN FALSE
   ELSE Abs(total_amount - existing_total.v) > TotalTolerance

\* Lines 294-300: lower-case, strip, every run of whitespace to one space.
normalize_item_name(name) == JoinSpace(StrSplit(StrStrip(StrLower(name))))

\* Lines 208-217: the Merchant column lower-cased and stripped (a cell that is
\* not text becomes NaN) and scored against the candidate's merchant name.
NormalizedMerchant(cell) == StrStrip(StrLower(cell.text))

MerchantScore(cell, merchant_name, matcher) ==
   IF cell.isText THEN token_set_ratio(NormalizedMerchant(cell), merchant_name, matcher)
   ELSE 0

\* Lines 205-239: the rows kept by the merchant and the date filters, each
\* with its normalized merchant, numeric columns and merchant_score.
RECURSIVE FilterRows(_, _, _, _, _)
FilterRows(rows, i, merchant_name, receipt_date, matcher) ==
   IF i > Len(rows) THEN << >>
   ELSE
   LET row    == rows[i]
       score  == MerchantScore(row.Merchant, merchant_name, matcher)
       parsed == parse_date(row.Date)
       rest   == FilterRows(rows, i + 1, merchant_name, receipt_date, matcher)
   IN  IF /\ score >= fuzzy_threshold
          /\ parsed.ok
          /\ Abs(DateOrdinal(receipt_date) - DateOrdinal(parsed)) <= threshold_days
       THEN << [index          |-> i,
                Date           |-> row.Date,
                Merchant       |-> NormalizedMerchant(row.Merchant),
                Address        |-> row.Address,
                Item           |-> row.Item,
                Category       |-> row.Category,
                Qty            |-> row.Qty,
                UnitPrice      |-> row.UnitPrice,
                TotalPrice     |-> to_numeric(row.TotalPrice),
                Tax            |-> row.Tax,
                GrandTotal     |-> to_numeric(row.GrandTotal),
                Payment        |-> row.Payment,
                merchant_score |-> score] >> \o rest
       ELSE rest

\* Lines 254 and 261: the key of a row's receipt; float(x or 0) leaves a
\* number and NaN (which is truthy) as they are.  The code joins the three parts with
\* "|"; a date that survived the date filter and a formatted total hold no
\* "|", so two joined keys are equal exactly when the three parts are.
GroupKey(row) == << row.Date, row.Merchant, Format2f(row.GrandTotal) >>

\* Line 257
IsZeroTotal(row) == ~row.GrandTotal.nan /\ row.GrandTotal.v = 0

TotalUpper == S(<<"T", "O", "T", "A", "L">>)

\* Lines 276-277
IsItemRow(row) ==
   LET item_name == StrStrip(row.Item)
   IN  item_name # EmptyStr /\ StrUpper(item_name) # TotalUpper

GroupItem(row) ==
   [Item       |-> StrStrip(row.Item),
    Category   |-> row.Category,
    Qty        |-> row.Qty,
    UnitPrice  |-> row.UnitPrice,
    TotalPrice |-> row.TotalPrice,
    index      |-> row.index]

GroupIndex(groups, key) ==
   IF \E g \in 1..Len(groups) : groups[g].key = key
   THEN CHOOSE g \in 1..Len(groups) : groups[g].key = key
   ELSE 0

\* Lines 248-288: the receipts reconstructed from the surviving rows, in
\* first-seen order (a Python dict keeps insertion order).
RECURSIVE GroupRowsFrom(_, _, _)
GroupRowsFrom(df_match, i, receipt_groups) ==
   IF i > Len(df_match) THEN receipt_groups
   ELSE
   LET row == df_match[i]
   IN  IF IsZeroTotal(row) THEN GroupRowsFrom(df_match, i + 1, receipt_groups)
       ELSE
       LET key     == GroupKey(row)
           known   == GroupIndex(receipt_groups, key)
           created == IF known # 0 THEN receipt_groups
                      ELSE Append(receipt_groups,
                              [key            |-> key,
                               Date           |-> row.Date,
                               Merchant       |-> row.Merchant,
                               Address        |-> row.Address,
                               GrandTotal     |-> row.GrandTotal,
                               Tax            |-> row.Tax,
                               Payment        |-> row.Payment,
                               items          |-> << >>,
                               merchant_score |-> row.merchant_score])
           g       == GroupIndex(created, key)
           added   == IF IsItemRow(row)
                      THEN [created EXCEPT ![g].items = Append(@, GroupItem(row))]
                      ELSE created
       IN  GroupRowsFrom(df_match, i + 1, added)

\* A plausible slip: the group's header is overwritten by every row of the
\* receipt, so it ends as the last-seen row's.
RECURSIVE GroupRowsLastSeenFrom(_, _, _)
GroupRowsLastSeenFrom(df_match, i, receipt_groups) ==
   IF i > Len(df_match) THEN receipt_groups
   ELSE
   LET row == df_match[i]
   IN  IF IsZeroTotal(row) THEN GroupRowsLastSeenFrom(df_match, i + 1, receipt_groups)
       ELSE
       LET key     == GroupKey(row)
           known   == GroupIndex(receipt_groups, key)
           header  == [key            |-> key,
                       Date           |-> row.Date,
                       Merchant       |-> row.Merchant,
                       Address        |-> row.Address,
                       GrandTotal     |-> row.GrandTotal,
                       Tax            |-> row.Tax,
                       Payment        |-> row.Payment,
                       items          |-> IF known = 0 THEN << >>
                                          ELSE receipt_groups[known].items,
                       merchant_score |-> row.merchant_score]
           created == IF known # 0 THEN [receipt_groups EXCEPT ![known] = header]
                      ELSE Append(receipt_groups, header)
           g       == GroupIndex(created, key)
           added   == IF IsItemRow(row)
                      THEN [created EXCEPT ![g].items = Append(@, GroupItem(row))]
                      ELSE created
       IN  GroupRowsLastSeenFrom(df_match, i + 1, added)

GroupRowsLastSeen(df_match) == GroupRowsLastSeenFrom(df_match, 1, << >>)

GroupRows(df_match) == GroupRowsFrom(df_match, 1, << >>)

\* Lines 302-309 and 325-332: the normalized names of a list of items.
ExpectedNames(receipt) ==
   [i \in 1..Len(receipt.line_items) |-> normalize_item_name(receipt.line_items[i].item_name)]

MatchedNames(existing_receipt) ==
   [j \in 1..Len(existing_receipt.items) |-> normalize_item_name(existing_receipt.items[j].Item)]

\* Lines 345-352, the inner loop: is there an existing item, from j on, whose
\* name is similar enough (the loop stops at the first).
RECURSIVE HasSimilar(_, _, _, _)
HasSimilar(name, matched_names, j, matcher) ==
   IF j > Len(matched_names) THEN FALSE
   ELSE IF FuzzRatio(name, matched_names[j], matcher) >= ItemSimilarityThreshold THEN TRUE
   ELSE HasSimilar(name, matched_names, j + 1, matcher)

\* A plausible slip: an existing item, once matched, is used up (one-to-one
\* matching); taken[j] says that existing item j is used.
RECURSIVE CountConsuming(_, _, _, _, _)
CountConsuming(expected_names, i, matched_names, taken, matcher) ==
   IF i > Len(expected_names) THEN 0
   ELSE LET free == {j \in 1..Len(matched_names) :
                       /\ ~taken[j]
                       /\ FuzzRatio(expected_names[i], matched_names[j], matcher)
                             >= ItemSimilarityThreshold}
        IN  IF free = {}
            THEN CountConsuming(expected_names, i + 1, matched_names, taken, matcher)
            ELSE LET j == CHOOSE x \in free : \A y \in free : x <= y
                 IN  1 + CountConsuming(expected_names, i + 1, matched_names,
                                        [taken EXCEPT ![j] = TRUE], matcher)

CountMatchedOneToOne(expected_names, i, matched_names, matcher) ==
   CountConsuming(expected_names, i, matched_names,
                  [j \in 1..Len(matched_names) |-> FALSE], matcher)

\* Lines 339-352, the outer loop: matched_count.
RECURSIVE CountMatched(_, _, _, _)
CountMatched(expected_names, i, matched_names, matcher) ==
   IF i > Len(expected_names) THEN 0
   ELSE (IF HasSimilar(expected_names[i], matched_names, 1, matcher) THEN 1 ELSE 0)
        + CountMatched(expected_names, i + 1, matched_names, matcher)

\* Lines 338-362 for one reconstructed receipt that passed the total check.
\* match_percentage is kept as the fraction matched_count / total_items; the
\* reported value, round(match_percentage, 1), is in tenths of a percent.
ScoreGroup(receipt, existing_receipt, matcher) ==
   LET expected_names == ExpectedNames(receipt)
       matched_names  == MatchedNames(existing_receipt)
       matched_count  == CountMatched(expected_names, 1, matched_names, matcher)
       total_items    == Max2(Len(expected_names), Len(matched_names))
   IN  [key              |-> existing_receipt.key,
        matched_count    |-> matched_count,
        total_items      |-> total_items,
        match_percentage |-> IF total_items > 0
                             THEN RoundHalfEven(matched_count * 1000, total_items)
                             ELSE 0,
        is_duplicate     |-> IF total_items > 0
                             THEN matched_count * 100 >= DuplicatePercentage * total_items
                             ELSE 0 >= DuplicatePercentage]

\* Lines 365-381
DuplicateSummary(existing_receipt, score) ==
   [Date             |-> existing_receipt.Date,
    Merchant         |-> existing_receipt.Merchant,
    Address          |-> existing_receipt.Address,
    GrandTotal       |-> existing_receipt.GrandTotal,
    Tax              |-> existing_receipt.Tax,
    Payment          |-> existing_receipt.Payment,
    Item             |-> Len(existing_receipt.items),
    Category         |-> {existing_receipt.items[j].Category :
                            j \in {k \in 1..Len(existing_receipt.items) :
                                     existing_receipt.items[k].Category # EmptyStr}},
    match_type       |-> "fuzzy_match",
    match_percentage |-> score.match_percentage,
    merchant_score   |-> existing_receipt.merchant_score,
    items_detail     |-> existing_receipt.items]

\* Lines 315-383: the scores of the groups that pass the total check, in
\* group order.
RECURSIVE ScoreGroups(_, _, _, _)
ScoreGroups(receipt, receipt_groups, g, matcher) ==
   IF g > Len(receipt_groups) THEN << >>
   ELSE LET rest == ScoreGroups(receipt, receipt_groups, g + 1, matcher)
        IN  IF AmountDiffTooLarge(receipt.total_amounts.total, receipt_groups[g].GrandTotal)
            THEN rest
            ELSE << ScoreGroup(receipt, receipt_groups[g], matcher) >> \o rest

\* The duplicates list: a summary for every scored group that is a duplicate.
RECURSIVE Summaries(_, _, _)
Summaries(receipt_groups, scored, s) ==
   IF s > Len(scored) THEN << >>
   ELSE LET rest == Summaries(receipt_groups, scored, s + 1)
            g    == GroupIndex(receipt_groups, scored[s].key)
        IN  IF scored[s].is_duplicate
            THEN << DuplicateSummary(receipt_groups[g], scored[s]) >> \o rest
            ELSE rest

\* (Each filtered row and each group item carries "index", the row's place in
\* the sheet: the DataFrame's index label.)
\* What a call leaves behind: how it ended, the list it returned, and the
\* intermediate values of the call (the filtered rows, the reconstructed
\* receipts, the score of each compared receipt, the number of ledger rows it
\* scored).
CallResult(outcome, duplicates, df_match, receipt_groups, scored, examined) ==
   [outcome        |-> outcome,
    duplicates     |-> duplicates,
    df_match       |-> df_match,
    receipt_groups |-> receipt_groups,
    scored         |-> scored,
    examined       |-> examined]

ReturnEmpty(examined) == CallResult("return", << >>, << >>, << >>, << >>, examined)

\* Line 208: .str on a Merchant column that holds no text at all raises
\* AttributeError; the handler of lines 392-396 returns [].
MerchantColumnRaises(all_receipts) ==
   \A i \in 1..Len(all_receipts) : ~all_receipts[i].Merchant.isText

\* Lines 180-390, the body of the outer try: the empty ledger and the
\* candidate's unparseable date return [] at once; a Merchant column without
\* text raises.
find_duplicate_body(receipt, all_receipts, matcher) ==
   IF all_receipts = << >> THEN ReturnEmpty(0)
   ELSE
   LET receipt_date == ParseReceiptDate(receipt.purchase_date)
   IN  IF ~receipt_date.ok THEN ReturnEmpty(0)
       ELSE IF MerchantColumnRaises(all_receipts)
       THEN CallResult("raise", << >>, << >>, << >>, << >>, 0)
       ELSE
       LET merchant_name == StrStrip(StrLower(receipt.merchant_details.name))
           df_match      == FilterRows(all_receipts, 1, merchant_name, receipt_date, matcher)
       IN  IF df_match = << >> THEN ReturnEmpty(Len(all_receipts))
           ELSE
           LET receipt_groups == GroupRows(df_match)
               scored         == ScoreGroups(receipt, receipt_groups, 1, matcher)
           IN  CallResult("return", Summaries(receipt_groups, scored, 1),
                          df_match, receipt_groups, scored, Len(all_receipts))

\* Lines 392-396: except Exception: ... return []
ReturnEmptyOnException(body) ==
   IF body.outcome = "raise" THEN ReturnEmpty(body.examined) ELSE body

\* find_duplicate_receipts(receipt) with the default thresholds, on the rows
\* get_all_receipts returned: the body, and the handler of lines 392-396 that
\* turns any exception into [].
find_duplicate_receipts(receipt, all_receipts, matcher) ==
   ReturnEmptyOnException(find_duplicate_body(receipt, all_receipts, matcher))

(***************************************************************************)
(* The receipts and the hand-made rows the model draws from                *)
(***************************************************************************)

MakeItem(name, price, category) ==
   [item_name |-> name, unit_price |-> price, quantity |-> 1, price |-> price,
    category |-> category]

MakeReceipt(date, merchant, address, items, total, tax, payment) ==
   [merchant_details |-> [name |-> merchant, address |-> address],
    purchase_date    |-> date,
    line_items       |-> items,
    total_amounts    |-> [total |-> total, tax |-> tax, payment_method |-> payment]]

Jan01 == S(<<"0", "1", "-", "0", "1", "-", "2", "0", "2", "5">>)

Jan02 == S(<<"0", "2", "-", "0", "1", "-", "2", "0", "2", "5">>)

Jan01Iso == S(<<"2", "0", "2", "5", "-", "0", "1", "-", "0", "1">>)

Walmart == S(<<"W", "a", "l", "m", "a", "r", "t">>)

WalDashMart == S(<<"W", "A", "L", "-", "M", "A", "R", "T">>)

WalmartUpper == S(<<"W", "A", "L", "M", "A", "R", "T">>)

WalmartPadded == S(<<" ", "W", "A", "L", "M", "A", "R", "T", " ">>)

Aldi == S(<<"A", "l", "d", "i">>)

Food == S(<<"F", "o", "o", "d">>)

Milk == S(<<"M", "i", "l", "k">>)

MilkLower == S(<<"m", "i", "l", "k">>)

Bread == S(<<"B", "r", "e", "a", "d">>)

BreadLower == S(<<"b", "r", "e", "a", "d">>)

Eggs == S(<<"E", "g", "g", "s">>)

Salt == S(<<"S", "a", "l", "t">>)

TotalLine == S(<<"T", "o", "t", "a", "l">>)

\* Receipt A of the specification's scenario.
ReceiptA ==
   MakeReceipt(Jan01, Walmart, "1 Main St",
               << MakeItem(Milk, 3500, Food), MakeItem(Bread, 2000, Food) >>,
               5500, 0, "card")

ReceiptB ==
   MakeReceipt(Jan02, Aldi, "2 Side St", << MakeItem(Eggs, 2500, Food) >>,
               2500, 190, "cash")

\* A receipt whose date is written yyyy-mm-dd.
ReceiptIso ==
   MakeReceipt(Jan01Iso, Walmart, "1 Main St", << MakeItem(Milk, 3500, Food) >>,
               3500, 0, "card")

\* The specification's candidate: receipt A with the merchant "WAL-MART".
CandidateWalDashMart ==
   MakeReceipt(Jan01, WalDashMart, "1 Main St",
               << MakeItem(MilkLower, 3500, Food), MakeItem(BreadLower, 2000, Food) >>,
               5500, 0, "card")

CandidateUpper ==
   MakeReceipt(Jan01, WalmartUpper, "1 Main St",
               << MakeItem(MilkLower, 3500, Food), MakeItem(BreadLower, 2000, Food) >>,
               5500, 0, "card")

\* Four items, two of them the same, bought a day later, the total 0.004
\* higher.
CandidateFour ==
   MakeReceipt(Jan02, Walmart, "1 Main St",
               << MakeItem(Milk, 1750, Food), MakeItem(MilkLower, 1750, Food),
                  MakeItem(Bread, 1000, Food), MakeItem(Salt, 1004, Food) >>,
               5504, 0, "card")

CandidateNoItems ==
   MakeReceipt(Jan01, Walmart, "1 Main St", << >>, 5500, 0, "card")

\* The receipts the service is given: the first three are saved and
\* checked, the others are only checked.
Receipts ==
   << ReceiptA, ReceiptB, ReceiptIso,
      CandidateWalDashMart, CandidateUpper, CandidateFour, CandidateNoItems >>

HandRow(date, merchant, address, item, total, tax, payment) ==
   [Date       |-> date,
    Merchant   |-> merchant,
    Address    |-> address,
    Item       |-> item,
    Category   |-> Food,
    Qty        |-> 1,
    UnitPrice  |-> 1000,
    TotalPrice |-> NumCell(1000),
    Tax        |-> tax,
    GrandTotal |-> total,
    Payment    |-> payment]

\* Rows typed into the sheet by hand: a blank Grand Total; a "Total" line
\* with another address, tax and payment; a total that rounds to 5.50; a zero
\* total; a merchant that is a number.
RowBlankTotal == HandRow(Jan02, TextCell(Aldi), "2 Side St", Eggs, BlankCell, 0, "cash")

RowTotalLine == HandRow(Jan01, TextCell(WalmartPadded), "9 High St", TotalLine, NumCell(5500), 500, "cash")

RowEggs == HandRow(Jan01, TextCell(Walmart), "5 Low St", Eggs, NumCell(5504), 250, "card")

RowZeroTotal == HandRow(Jan01, TextCell(Walmart), "1 Main St", Milk, NumCell(0), 0, "card")

MerchantDigits == S(<<"7", "1", "1">>)

RowNumberMerchant == HandRow(Jan01, NumberAsMerchant(MerchantDigits), "1 Main St", Milk, NumCell(5500), 0, "card")

HandRows == {RowBlankTotal, RowTotalLine, RowEggs, RowZeroTotal, RowNumberMerchant}

(***************************************************************************)
(* PeriodResolver and BudgetStatus: calculate_budget_spending and          *)
(* AnalysisService.get_budget_status                                       *)
(***************************************************************************)

SecondsPerDay == 24 * 60 * 60

\* Instants are counted from the first day of 2024.
Epoch == [y |-> 2024, m |-> 1, d |-> 1, sec |-> 0]

\* A datetime [y, m, d, sec] (sec: the second of the day) as seconds.
Stamp(dt) == (Ordinal(dt.y, dt.m, dt.d) - Ordinal(Epoch.y, Epoch.m, Epoch.d)) * SecondsPerDay + dt.sec

Midnight(date) == [y |-> date.y, m |-> date.m, d |-> date.d, sec |-> 0]

\* now.replace(day=1, hour=0, minute=0, second=0, microsecond=0)
MonthStart(now) == Stamp([now EXCEPT !.d = 1, !.sec = 0])

\* calculate_budget_spending, lines 639-680: the window of a budget.  A
\* missing start_date or end_date is the empty string.
BudgetWindow(period, period_type, start_date, end_date, now) ==
   IF period_type = "rolling"
   THEN [range_start |-> Stamp(now) - (IF period = "weekly" THEN 7 ELSE 30) * SecondsPerDay,
         range_end   |-> Stamp(now)]
   ELSE IF period_type = "calendar_month"
   THEN [range_start |-> MonthStart(now),
         range_end   |-> IF now.m = 12
                         THEN Stamp([now EXCEPT !.d = 31, !.sec = SecondsPerDay - 1])
                         ELSE Stamp([now EXCEPT !.m = now.m + 1, !.d = 1]) - 1]
   ELSE IF period_type = "calendar_week"
   THEN LET start_of_week == Stamp(now) - Weekday(Ordinal(now.y, now.m, now.d)) * SecondsPerDay
        IN  [range_start |-> start_of_week - now.sec,
             range_end   |-> start_of_week + 6 * SecondsPerDay + (SecondsPerDay - 1)]
   ELSE IF period_type = "custom" /\ start_date # EmptyStr /\ end_date # EmptyStr
   THEN LET first == Strptime(start_date, "ymd")
            last  == Strptime(end_date, "ymd")
        IN  IF first.ok /\ last.ok
            THEN [range_start |-> Stamp(Midnight(first)),
                  range_end   |-> Stamp(Midnight(last)) + (SecondsPerDay - 1)]
            ELSE [range_start |-> MonthStart(now), range_end |-> Stamp(now)]
   ELSE [range_start |-> MonthStart(now), range_end |-> Stamp(now)]

\* Lines 687-714, one ledger row: does it count, and with what amount.  A row
\* whose date parses in neither format is skipped; float() of a blank Total
\* Price raises and the row is skipped.
RowCounts(receipt, normalized_category, window) ==
   LET receipt_category       == StrStrip(receipt.Category)
       normalized_receipt_cat == normalize_category(receipt_category)
       receipt_date           == parse_date(receipt.Date)
   IN  /\ normalized_receipt_cat = normalized_category
       /\ receipt_date.ok
       /\ window.range_start <= Stamp(Midnight(receipt_date))
       /\ Stamp(Midnight(receipt_date)) <= window.range_end
       /\ receipt.TotalPrice.isNum

\* Lines 686-717: the loop over the ledger; total_spending and the rows that
\* were included.
RECURSIVE SpendingLoop(_, _, _, _, _)
SpendingLoop(receipts, i, normalized_category, window, acc) ==
   IF i > Len(receipts) THEN acc
   ELSE SpendingLoop(receipts, i + 1, normalized_category, window,
                     IF RowCounts(receipts[i], normalized_category, window)
                     THEN [total_spending |-> acc.total_spending + receipts[i].TotalPrice.num,
                           included       |-> acc.included \cup {i}]
                     ELSE acc)

\* calculate_budget_spending(category, period, period_type, start_date,
\* end_date), on the rows get_all_receipts returned and the clock's now.
calculate_budget_spending(category, period, period_type, start_date, end_date, receipts, now) ==
   SpendingLoop(receipts, 1, normalize_category(category),
                BudgetWindow(period, period_type, start_date, end_date, now),
                [total_spending |-> 0, included |-> {}])

RECURSIVE GCD(_, _)
GCD(a, b) == IF b = 0 THEN a ELSE GCD(b, a % b)

\* a / b * 100 for 0 < b, as a fraction num / den in lowest terms.
Percent(a, b) ==
   LET g == GCD(Abs(a * 100), b)
   IN  [num |-> (a * 100) \div g, den |-> b \div g]

ZeroPercent == [num |-> 0, den |-> 1]

\* A plausible slip: only a limit of exactly zero is guarded.
PercentageUsedZeroGuard(current_spend, limit) ==
   IF limit = 0 THEN ZeroPercent
   ELSE IF limit > 0 THEN Percent(current_spend, limit)
   ELSE Percent(-current_spend, -limit)

\* Line 431: (current_spend / limit * 100) if limit > 0 else 0
PercentageUsed(current_spend, limit) ==
   IF limit > 0 THEN Percent(current_spend, limit) ELSE ZeroPercent

\* Lines 419-454 for one row of the Budgets sheet.
BudgetReport(budget_row, receipts, now) ==
   LET spending == calculate_budget_spending(budget_row.Category, budget_row.Period,
                                             budget_row.PeriodType, budget_row.StartDate,
                                             budget_row.EndDate, receipts, now)
   IN  [id              |-> budget_row.ID,
        category        |-> budget_row.Category,
        limit           |-> budget_row.Limit,
        period          |-> budget_row.Period,
        period_type     |-> budget_row.PeriodType,
        start_date      |-> budget_row.StartDate,
        end_date        |-> budget_row.EndDate,
        current_spend   |-> spending.total_spending,
        percentage_used |-> PercentageUsed(spending.total_spending, budget_row.Limit),
        is_exceeded     |-> spending.total_spending > budget_row.Limit,
        included        |-> spending.included]

\* AnalysisService.get_budget_status(): a report per budget and the totals.
get_budget_status(budget_data, receipts, now) ==
   LET reports      == [b \in 1..Len(budget_data) |-> BudgetReport(budget_data[b], receipts, now)]
       total_budget == SumSeq([b \in 1..Len(budget_data) |-> budget_data[b].Limit])
       total_spent  == SumSeq([b \in 1..Len(budget_data) |-> reports[b].current_spend])
   IN  [budgets            |-> reports,
        total_budget       |-> total_budget,
        total_spent        |-> total_spent,
        overall_percentage |-> PercentageUsed(total_spent, total_budget)]

\* save_budget, lines 433-443: the row of the budget's ID is replaced, or the
\* row is appended.
save_budget(budget_rows, row) ==
   IF \E i \in 1..Len(budget_rows) : budget_rows[i].ID = row.ID
   THEN [i \in 1..Len(budget_rows) |->
           IF i = (CHOOSE k \in 1..Len(budget_rows) :
                     /\ budget_rows[k].ID = row.ID
                     /\ \A j \in 1..(k - 1) : budget_rows[j].ID # row.ID)
           THEN row ELSE budget_rows[i]]
   ELSE Append(budget_rows, row)

(***************************************************************************)
(* The budgets, the spending rows and the clock readings the model draws   *)
(* from                                                                    *)
(***************************************************************************)

Grocery == S(<<"G", "r", "o", "c", "e", "r", "y">>)

Groceries == S(<<"G", "r", "o", "c", "e", "r", "i", "e", "s">>)

GroceryPadded == S(<<" ", "g", "r", "o", "c", "e", "r", "y", " ">>)

Dining == S(<<"D", "i", "n", "i", "n", "g">>)

Jan10Iso == S(<<"2", "0", "2", "5", "-", "0", "1", "-", "1", "0">>)

Jan20Iso == S(<<"2", "0", "2", "5", "-", "0", "1", "-", "2", "0">>)

Feb01Iso == S(<<"2", "0", "2", "5", "-", "0", "2", "-", "0", "1">>)

Jan15 == S(<<"1", "5", "-", "0", "1", "-", "2", "0", "2", "5">>)

Jan20 == S(<<"2", "0", "-", "0", "1", "-", "2", "0", "2", "5">>)

Jan15Slashes == S(<<"1", "5", "/", "0", "1", "/", "2", "0", "2", "5">>)

MakeBudget(id, category, limit, period, period_type, start_date, end_date) ==
   [ID |-> id, Category |-> category, Limit |-> limit, Period |-> period,
    PeriodType |-> period_type, StartDate |-> start_date, EndDate |-> end_date]

BudgetMonth == MakeBudget("b1", Grocery, 25000, "monthly", "calendar_month", EmptyStr, EmptyStr)

BudgetWeek == MakeBudget("b2", Grocery, 0, "weekly", "calendar_week", EmptyStr, EmptyStr)

BudgetRolling == MakeBudget("b3", Grocery, -5000, "monthly", "rolling", EmptyStr, EmptyStr)

BudgetCustom == MakeBudget("b4", Grocery, 10000, "monthly", "custom", Jan10Iso, Jan20Iso)

BudgetChoices == {BudgetMonth, BudgetWeek, BudgetRolling, BudgetCustom}

SpendRow(date, category, price) ==
   [Date       |-> date,
    Merchant   |-> TextCell(Walmart),
    Address    |-> "1 Main St",
    Item       |-> Milk,
    Category   |-> category,
    Qty        |-> 1,
    UnitPrice  |-> 1000,
    TotalPrice |-> price,
    Tax        |-> 0,
    GrandTotal |-> NumCell(40000),
    Payment    |-> "card"]

\* Spending in the middle of January 2025; on the first day of February,
\* written yyyy-mm-dd, the category in another spelling; on Monday the 20th;
\* in another category; with a blank Total Price; with a date that does not
\* parse.
SpendJan15 == SpendRow(Jan15, Groceries, NumCell(10000))

SpendFeb01 == SpendRow(Feb01Iso, GroceryPadded, NumCell(20000))

SpendJan20 == SpendRow(Jan20, Groceries, NumCell(5000))

SpendDining == SpendRow(Jan15, Dining, NumCell(7000))

SpendBlank == SpendRow(Jan15, Groceries, BlankCell)

SpendUndated == SpendRow(Jan15Slashes, Groceries, NumCell(3000))

SpendRows == {SpendJan15, SpendFeb01, SpendJan20, SpendDining, SpendBlank, SpendUndated}

\* Wednesday 15 January 2025 at 14:30:00 and at 00:00:00; Monday 30 December
\* 2024 at 10:00:00.
Clock ==
   { [y |-> 2025, m |-> 1, d |-> 15, sec |-> 14 * 3600 + 30 * 60],
     [y |-> 2025, m |-> 1, d |-> 15, sec |-> 0],
     [y |-> 2024, m |-> 12, d |-> 30, sec |-> 10 * 3600] }

(***************************************************************************)
(* The category labels the model draws from                                *)
(***************************************************************************)

\* The longest label built from the letters below.
MaxLabelLen == 3

\* "s", "S", "i", "e", "y" and the space: enough for every suffix rule.
LabelChars == {115, 83, 105, 101, 121, 32}

RECURSIVE LabelsUpTo(_)
LabelsUpTo(n) ==
   IF n = 0 THEN {EmptyStr}
   ELSE LET shorter == LabelsUpTo(n - 1)
        IN  shorter \cup {Append(s, c) : s \in shorter, c \in LabelChars}

Items == S(<<"I", "t", "e", "m", "s">>)

Bus == S(<<"B", "u", "s">>)

GlassPadded == S(<<" ", "G", "l", "a", "s", "s", " ">>)

Labels == LabelsUpTo(MaxLabelLen) \cup {Groceries, Grocery, Items, Bus, GlassPadded}

(***************************************************************************)
(* TrendAnalyzer, Forecast and CategoryAnalysis: AnalysisService           *)
(***************************************************************************)

\* AnalysisService._parse_date: dd-mm-yyyy, then yyyy-mm-dd, and for a
\* string that is neither, datetime.now().
AnalysisParseDate(date_str, now) ==
   LET first == Strptime(date_str, "dmy")
   IN  IF first.ok THEN Midnight(first)
       ELSE LET second == Strptime(date_str, "ymd")
            IN  IF second.ok THEN Midnight(second) ELSE now

\* No bound: filter_start or filter_end is None.
Unbounded == [set |-> FALSE, at |-> 0]

Bound(at) == [set |-> TRUE, at |-> at]

\* The month before the month of now.
PreviousMonth(now) ==
   IF now.m = 1 THEN [y |-> now.y - 1, m |-> 12] ELSE [y |-> now.y, m |-> now.m - 1]

\* get_trends, lines 72-92, and get_category_analysis, lines 295-315: the
\* date range of a filter.  A start_date or end_date that was not given is
\* the empty string.
FilterRange(date_filter, start_date, end_date, now) ==
   IF date_filter = "last_7"
   THEN [filter_start |-> Bound(Stamp(now) - 7 * SecondsPerDay), filter_end |-> Unbounded]
   ELSE IF date_filter = "last_30"
   THEN [filter_start |-> Bound(Stamp(now) - 30 * SecondsPerDay), filter_end |-> Unbounded]
   ELSE IF date_filter = "last_90"
   THEN [filter_start |-> Bound(Stamp(now) - 90 * SecondsPerDay), filter_end |-> Unbounded]
   ELSE IF date_filter = "this_month"
   THEN [filter_start |-> Bound(MonthStart(now)), filter_end |-> Unbounded]
   ELSE IF date_filter = "last_month"
   THEN LET first_of_this_month == Stamp([now EXCEPT !.d = 1])
            filter_end          == first_of_this_month - SecondsPerDay
            days                == DaysInMonth(PreviousMonth(now).y, PreviousMonth(now).m)
        IN  [filter_start |-> Bound(filter_end - (days - 1) * SecondsPerDay),
             filter_end   |-> Bound(filter_end)]
   ELSE IF date_filter = "this_year"
   THEN [filter_start |-> Bound(Stamp([now EXCEPT !.m = 1, !.d = 1, !.sec = 0])),
         filter_end   |-> Unbounded]
   ELSE IF date_filter = "custom" /\ start_date # EmptyStr
   THEN LET first == Strptime(start_date, "ymd")
            last  == Strptime(end_date, "ymd")
        IN  IF ~first.ok
            THEN [filter_start |-> Unbounded, filter_end |-> Unbounded]
            ELSE [filter_start |-> Bound(Stamp(Midnight(first))),
                  filter_end   |-> IF end_date # EmptyStr /\ last.ok
                                   THEN Bound(Stamp(Midnight(last)))
                                   ELSE Unbounded]
   ELSE [filter_start |-> Unbounded, filter_end |-> Unbounded]

\* Lines 104-107 and 330-333: the date passes the filter.
InRange(date, range) ==
   /\ ~(range.filter_start.set /\ Stamp(date) < range.filter_start.at)
   /\ ~(range.filter_end.set /\ Stamp(date) > range.filter_end.at)

\* The decimal digits of n, zero-padded to width.
RECURSIVE Padded(_, _)
Padded(n, width) ==
   IF width = 0 THEN EmptyStr
   ELSE Append(Padded(n \div 10, width - 1), 48 + (n % 10))

HyphenStr == S(<<"-">>)

HyphenW == S(<<"-", "W">>)

\* date.strftime("%Y-%m")
MonthKey(date) == Padded(date.y, 4) \o HyphenStr \o Padded(date.m, 2)

\* %U: the week of the year, the weeks starting on Sunday, the days before
\* the first Sunday in week 0.
WeekOfYear(date) ==
   LET ord     == Ordinal(date.y, date.m, date.d)
       yday    == ord - Ordinal(date.y, 1, 1)
       sundays == (Weekday(ord) + 1) % 7
   IN  (yday + 7 - sundays) \div 7

\* date.strftime("%Y-W%U")
WeekKey(date) == Padded(date.y, 4) \o HyphenW \o Padded(WeekOfYear(date), 2)

\* Lines 111-117, 205-211, 361-368: the row has a Total Price that is a
\* number above zero.
PositiveAmount(receipt) == receipt.TotalPrice.isNum /\ receipt.TotalPrice.num > 0

\* sorted(keys) for a set of period keys
RECURSIVE SortedKeys(_)
SortedKeys(keys) ==
   IF keys = {} THEN << >>
   ELSE LET least == CHOOSE k \in keys : \A other \in keys \ {k} : StrLess(k, other)
        IN  << least >> \o SortedKeys(keys \ {least})

\* Lines 99-132 for the rows from i on: what each row that is kept adds, as
\* [category, period_key, amount].
RECURSIVE TrendEntries(_, _, _, _, _)
TrendEntries(receipts, i, period, range, now) ==
   IF i > Len(receipts) THEN << >>
   ELSE LET receipt == receipts[i]
            date    == AnalysisParseDate(receipt.Date, now)
            rest    == TrendEntries(receipts, i + 1, period, range, now)
        IN  IF InRange(date, range) /\ PositiveAmount(receipt)
            THEN << [category   |-> receipt.Category,
                     period_key |-> IF period = "monthly" THEN MonthKey(date) ELSE WeekKey(date),
                     amount     |-> receipt.TotalPrice.num] >> \o rest
            ELSE rest

\* The sum of the amounts of the entries that satisfy Keep.
EntriesTotal(entries, Keep(_)) ==
   SumSeq([e \in 1..Len(entries) |-> IF Keep(entries[e]) THEN entries[e].amount ELSE 0])

\* Lines 137-147: the points of a series, sorted by period key.
TimeSeries(entries, Keep(_)) ==
   LET keys   == {entries[e].period_key : e \in {x \in 1..Len(entries) : Keep(entries[x])}}
       sorted == SortedKeys(keys)
   IN  [k \in 1..Len(sorted) |->
          LET AtKey(e) == Keep(e) /\ e.period_key = sorted[k]
          IN  [date |-> sorted[k], amount |-> EntriesTotal(entries, AtKey)]]

EmptyTrends(period) ==
   [period |-> period, categories |-> {}, data |-> << >>, total_by_period |-> << >>]

\* AnalysisService.get_trends(period, date_filter, start_date, end_date) on
\* the rows get_all_receipts returned when the clock reads now.
get_trends(period, date_filter, start_date, end_date, receipts, now) ==
   IF receipts = << >> THEN EmptyTrends(period)
   ELSE
   LET range          == FilterRange(date_filter, start_date, end_date, now)
       entries        == TrendEntries(receipts, 1, period, range, now)
       categories_set == {entries[e].category : e \in 1..Len(entries)}
       Every(e)       == TRUE
   IN  [period          |-> period,
        categories      |-> categories_set,
        data            |-> [c \in categories_set |->
                               LET Mine(e) == e.category = c
                               IN  TimeSeries(entries, Mine)],
        total_by_period |-> TimeSeries(entries, Every)]

\* num / den in lowest terms, for 0 < den.
Fraction(num, den) ==
   LET g == GCD(Abs(num), den)
   IN  [num |-> num \div g, den |-> den \div g]

FracAdd(a, b) == Fraction(a.num * b.den + b.num * a.den, a.den * b.den)

RECURSIVE FracSum(_)
FracSum(fractions) ==
   IF fractions = << >> THEN ZeroPercent
   ELSE FracAdd(Head(fractions), FracSum(Tail(fractions)))

\* a / b * 100 for fractions a and b, 0 < b.
FracPercent(a, b) == Fraction(a.num * b.den * 100, a.den * b.num)

\* The elements of a sequence in the order they first appear.
RECURSIVE FirstSeen(_)
FirstSeen(s) ==
   IF s = << >> THEN << >>
   ELSE LET before == FirstSeen(SubSeq(s, 1, Len(s) - 1))
        IN  IF s[Len(s)] \in SeqToSet(before) THEN before ELSE Append(before, s[Len(s)])

\* A plausible slip: the empty forecast reports the lookback of three months.
EmptyForecastThreeMonths ==
   [period          |-> "next_month",
    forecasts       |-> << >>,
    total_forecast  |-> ZeroPercent,
    confidence      |-> ZeroPercent,
    based_on_months |-> 3]

\* Lines 165-173 and 189-195: no data.
EmptyForecast ==
   [period          |-> "next_month",
    forecasts       |-> << >>,
    total_forecast  |-> ZeroPercent,
    confidence      |-> ZeroPercent,
    based_on_months |-> 0]

\* Lines 179-185: the rows dated three_months_ago or later.
RECURSIVE RecentReceipts(_, _, _)
RecentReceipts(receipts, i, now) ==
   IF i > Len(receipts) THEN << >>
   ELSE LET rest == RecentReceipts(receipts, i + 1, now)
        IN  IF Stamp(AnalysisParseDate(receipts[i].Date, now)) >= Stamp(now) - 90 * SecondsPerDay
            THEN << receipts[i] >> \o rest
            ELSE rest

\* A CategorySpending of the forecast, before its percentage is known.
ForecastEntry(category, avg, count) ==
   [category |-> category, total |-> avg, percentage |-> ZeroPercent,
    count |-> count, average |-> avg]

\* The sum and the number of the per-month totals of a category.
MonthsTotal(entries, category) ==
   SumSeq([e \in 1..Len(entries) |->
             IF entries[e].category = category THEN entries[e].amount ELSE 0])

MonthsCount(entries, category) ==
   Cardinality({entries[e].period_key :
                  e \in {x \in 1..Len(entries) : entries[x].category = category}})

\* Lines 229-240: the forecast of a category, the mean of its months.
CategoryForecast(entries, category) ==
   ForecastEntry(category,
                 Fraction(MonthsTotal(entries, category), MonthsCount(entries, category)),
                 MonthsCount(entries, category))

\* Lines 242-254: the percentages, and the forecast that is returned.
ForecastData(forecasts, total_forecast) ==
   [period          |-> "next_month",
    forecasts       |-> [c \in 1..Len(forecasts) |->
                           [forecasts[c] EXCEPT
                              !.percentage = IF total_forecast.num > 0
                                             THEN FracPercent(forecasts[c].total, total_forecast)
                                             ELSE ZeroPercent]],
    total_forecast  |-> total_forecast,
    confidence      |-> IF Len(forecasts) > 0 THEN Fraction(7, 10) ELSE ZeroPercent,
    based_on_months |-> 3]

\* Lines 226-240: one forecast for every category, total_forecast their sum.
ForecastOfCategories(forecasts) ==
   ForecastData(forecasts, FracSum([c \in 1..Len(forecasts) |-> forecasts[c].total]))

\* Lines 219-224: the categories in the order their first month was entered.
ForecastOfEntries(entries, categories) ==
   ForecastOfCategories([c \in 1..Len(categories) |-> CategoryForecast(entries, categories[c])])

\* Lines 197-217: the per-month totals of the recent rows.
ForecastOfRecent(recent_receipts, entries) ==
   IF recent_receipts = << >> THEN EmptyForecast
   ELSE ForecastOfEntries(entries, FirstSeen([e \in 1..Len(entries) |-> entries[e].category]))

\* AnalysisService.get_forecast() on the rows get_all_receipts returned when
\* the clock reads now.
get_forecast(receipts, now) ==
   IF receipts = << >> THEN EmptyForecast
   ELSE ForecastOfRecent(RecentReceipts(receipts, 1, now),
                         TrendEntries(RecentReceipts(receipts, 1, now), 1, "monthly",
                                      [filter_start |-> Unbounded, filter_end |-> Unbounded],
                                      now))

NoneStr == S(<<"N", "o", "n", "e">>)

EmptyAnalysis(period) ==
   [categories |-> << >>, total_spending |-> 0, top_category |-> NoneStr, period |-> period]

\* Lines 319-343: the rows that pass the filters.  categories is the set of
\* the categories asked for, empty when none is; min_amount and max_amount
\* are bounds that may not be set.
RECURSIVE FilteredReceipts(_, _, _, _, _, _, _)
FilteredReceipts(receipts, i, range, categories, min_amount, max_amount, now) ==
   IF i > Len(receipts) THEN << >>
   ELSE LET r    == receipts[i]
            rest == FilteredReceipts(receipts, i + 1, range, categories,
                                     min_amount, max_amount, now)
        IN  IF /\ r.TotalPrice.isNum
               /\ InRange(AnalysisParseDate(r.Date, now), range)
               /\ (categories = {} \/ r.Category \in categories)
               /\ ~(min_amount.set /\ r.TotalPrice.num < min_amount.at)
               /\ ~(max_amount.set /\ r.TotalPrice.num > max_amount.at)
            THEN << r >> \o rest
            ELSE rest

\* A plausible slip: the categories stay in the order of first appearance.
LeftUnsorted(s) == s

\* categories.sort(key=lambda x: x.total, reverse=True), one element at a
\* time: the sort is stable, equal totals keep their order.
RECURSIVE SortedByTotal(_)
SortedByTotal(s) ==
   IF s = << >> THEN << >>
   ELSE LET before == SortedByTotal(SubSeq(s, 1, Len(s) - 1))
            x      == s[Len(s)]
            ahead  == {k \in 1..Len(before) : before[k].total >= x.total}
            n      == Cardinality(ahead)
        IN  SubSeq(before, 1, n) \o << x >> \o SubSeq(before, n + 1, Len(before))

\* Lines 377-389: the CategorySpending of a category.
CategorySpending(category, total, count, total_spending) ==
   [category   |-> category,
    total      |-> total,
    percentage |-> IF total_spending > 0 THEN Percent(total, total_spending) ELSE ZeroPercent,
    count      |-> count,
    average    |-> Fraction(total, count)]

\* The total and the number of the rows of a category.
CategoryTotal(counted, category) ==
   SumSeq([i \in 1..Len(counted) |->
             IF counted[i].Category = category THEN counted[i].TotalPrice.num ELSE 0])

CategoryCount(counted, category) ==
   Cardinality({i \in 1..Len(counted) : counted[i].Category = category})

\* Lines 391-401: the categories in descending order of total, and the first
\* of them.
CategoryAnalysis(sorted, total_spending, period) ==
   [categories     |-> sorted,
    total_spending |-> total_spending,
    top_category   |-> IF sorted # << >> THEN sorted[1].category ELSE NoneStr,
    period         |-> period]

\* Lines 354-389 on the rows that are counted, those with an amount above
\* zero: the categories in the order of their first such row.
AnalysisOfCounted(counted, categories, total_spending, period) ==
   CategoryAnalysis(SortedByTotal([c \in 1..Len(categories) |->
                                     CategorySpending(categories[c],
                                                      CategoryTotal(counted, categories[c]),
                                                      CategoryCount(counted, categories[c]),
                                                      total_spending)]),
                    total_spending, period)

\* Lines 345-374.
AnalysisOfFiltered(filtered, counted, period) ==
   IF filtered = << >> THEN EmptyAnalysis(period)
   ELSE AnalysisOfCounted(counted,
                          FirstSeen([i \in 1..Len(counted) |-> counted[i].Category]),
                          SumSeq([i \in 1..Len(counted) |-> counted[i].TotalPrice.num]),
                          period)

\* AnalysisService.get_category_analysis(period, start_date, end_date,
\* categories, min_amount, max_amount) on the rows get_all_receipts returned
\* when the clock reads now.
get_category_analysis(period, start_date, end_date, categories, min_amount, max_amount, receipts, now) ==
   IF receipts = << >> THEN EmptyAnalysis(period)
   ELSE AnalysisOfFiltered(
           FilteredReceipts(receipts, 1, FilterRange(period, start_date, end_date, now),
                            categories, min_amount, max_amount, now),
           SelectSeq(FilteredReceipts(receipts, 1, FilterRange(period, start_date, end_date, now),
                                      categories, min_amount, max_amount, now),
                     PositiveAmount),
           period)

(***************************************************************************)
(* GoalTracker: SheetsService.calculate_goal_progress                      *)
(***************************************************************************)

\* get_goal_transactions(goal_id): the rows of the "Goal Transactions" sheet
\* with that Goal ID.
get_goal_transactions(all_transactions, goal_id) ==
   SelectSeq(all_transactions, LAMBDA t : t.GoalID = goal_id)

\* Lines 777-783: float(Amount) raises on a cell that holds no number.
TransactionRaises(txns) == \E k \in 1..Len(txns) : ~txns[k].Amount.isNum

\* Lines 776-783: deposits add, withdrawals subtract, every other type is
\* left out.
RECURSIVE TransactionTotal(_)
TransactionTotal(txns) ==
   IF txns = << >> THEN 0
   ELSE LET txn == Head(txns)
        IN  (IF txn.Type = "deposit" THEN txn.Amount.num
             ELSE IF txn.Type = "withdrawal" THEN -txn.Amount.num
             ELSE 0) + TransactionTotal(Tail(txns))

\* Line 806: the category test of the all-time branch.
HistoricalCategoryMatch(receipt, category) ==
   StrLower(StrStrip(receipt.Category)) = StrLower(category)

\* Lines 805-817, one ledger row: does it count.  A row whose date parses in
\* neither format, or whose Total Price is blank, raises and is skipped.
HistoricalRowCounts(receipt, category, target_date) ==
   /\ HistoricalCategoryMatch(receipt, category)
   /\ parse_date(receipt.Date).ok
   /\ Stamp(Midnight(parse_date(receipt.Date))) <= Stamp(Midnight(target_date))
   /\ receipt.TotalPrice.isNum

\* Lines 801-817: all-time spending up to the target date, and the rows that
\* were included.
HistoricalSpending(category, target_date, receipts) ==
   LET included == {i \in 1..Len(receipts) :
                      HistoricalRowCounts(receipts[i], category, target_date)}
   IN  [total_spending |-> SumSeq([i \in 1..Len(receipts) |->
                                     IF i \in included THEN receipts[i].TotalPrice.num ELSE 0]),
        included       |-> included]

\* Lines 789-821: the spending_limit branch.  A goal without a category has
\* the empty string for it.
SpendingLimitProgress(goal, receipts, now) ==
   IF goal.category = EmptyStr THEN 0
   ELSE LET target_date == Strptime(goal.target_date, "ymd")
        IN  IF ~target_date.ok THEN 0
            ELSE IF target_date.m = now.m /\ target_date.y = now.y
            THEN calculate_budget_spending(goal.category, "monthly", "calendar_month",
                                           EmptyStr, EmptyStr, receipts, now).total_spending
            ELSE HistoricalSpending(goal.category, target_date, receipts).total_spending

\* calculate_goal_progress(goal) on the two sheets as they are when the clock
\* reads now.
calculate_goal_progress(goal, all_transactions, receipts, now) ==
   IF ~goal.auto_track THEN goal.current_amount
   ELSE LET txns == get_goal_transactions(all_transactions, goal.id)
        IN  IF TransactionRaises(txns) THEN goal.current_amount
            ELSE IF goal.goal_type = "savings" THEN TransactionTotal(txns)
            ELSE IF goal.goal_type = "spending_limit"
            THEN SpendingLimitProgress(goal, receipts, now)
            ELSE goal.current_amount

(***************************************************************************)
(* The goals, the transactions and the rows the goal model draws from      *)
(***************************************************************************)

MakeGoal(id, goal_type, auto_track, category, target_date, current_amount) ==
   [id |-> id, goal_type |-> goal_type, auto_track |-> auto_track, category |-> category,
    target_date |-> target_date, current_amount |-> current_amount]

\* A savings goal; the same tracked by hand; a spending limit on "Grocery"
\* up to 20 January 2025; one without a category; one whose target date does
\* not parse; a goal of a type the service does not know.
GoalSavings == MakeGoal("g1", "savings", TRUE, EmptyStr, Feb01Iso, 999000)

GoalByHand == MakeGoal("g1", "savings", FALSE, EmptyStr, Feb01Iso, 999000)

GoalLimit == MakeGoal("g2", "spending_limit", TRUE, Grocery, Jan20Iso, 999000)

GoalLimitAll == MakeGoal("g2", "spending_limit", TRUE, EmptyStr, Jan20Iso, 999000)

GoalLimitUndated == MakeGoal("g2", "spending_limit", TRUE, Grocery, Jan15Slashes, 999000)

GoalDebt == MakeGoal("g1", "debt", TRUE, EmptyStr, Feb01Iso, 999000)

Goals == {GoalSavings, GoalByHand, GoalLimit, GoalLimitAll, GoalLimitUndated, GoalDebt}

MakeTransaction(goal_id, amount, transaction_type) ==
   [GoalID |-> goal_id, Amount |-> amount, Type |-> transaction_type]

\* What save_goal_transaction can write: a deposit, a withdrawal, a deposit
\* to another goal, a transaction of another type.
GoalTransactions ==
   {MakeTransaction("g1", NumCell(100000), "deposit"),
    MakeTransaction("g1", NumCell(30000), "withdrawal"),
    MakeTransaction("g2", NumCell(50000), "deposit"),
    MakeTransaction("g1", NumCell(5000), "transfer")}

PaddedJan20 == SpendRow(Jan20, GroceryPadded, NumCell(5000))

PaddedBlank == SpendRow(Jan15, GroceryPadded, BlankCell)

PaddedUndated == SpendRow(Jan15Slashes, GroceryPadded, NumCell(3000))

GoalRows == {SpendJan15, SpendFeb01, PaddedJan20, PaddedBlank, PaddedUndated}

\* The clock readings of the goal model: in the month of the target date,
\* and in the month before.
GoalClock == {now \in Clock : now.sec > 0}

(***************************************************************************)
(* UploadService: the upload jobs and process_upload                       *)
(***************************************************************************)

\* No error, no receipt_data.
None == "None"

\* UploadStatus.COMPLETED and UploadStatus.FAILED.
Finished == {"completed", "failed"}

\* create_job, lines 30-40: the UploadJob of a new upload.
NewJob ==
   [status |-> "pending", progress |-> 0, error |-> None, receipt_data |-> None,
    completed_at |-> FALSE]

\* A plausible slip: completed_at is set on COMPLETED only.
SetsCompletedAtOnSuccess(status) == status = "completed"

\* Line 60: the statuses that set completed_at.
SetsCompletedAt(status) == status \in Finished

\* update_job_status, lines 52-61, on the job object of the store.
UpdatedJob(job, status, progress, error) ==
   [job EXCEPT !.status = status,
               !.progress = progress,
               !.error = IF error # None THEN error ELSE @,
               !.completed_at = IF SetsCompletedAt(status) THEN TRUE ELSE @]

\* update_job_status(receipt_id, status, progress, error): nothing happens
\* when the id is not in upload_service.jobs.
update_job_status(job_ids, objects, receipt_id, status, progress, error) ==
   IF receipt_id \in job_ids
   THEN [objects EXCEPT ![receipt_id] = UpdatedJob(@, status, progress, error)]
   ELSE objects

\* A plausible slip: an extraction that raises is only logged.
GeminiErrorLogged(job_ids, objects, receipt_id) == objects

\* Lines 108-116: the extraction raised.
GeminiError(job_ids, objects, receipt_id) ==
   update_job_status(job_ids, objects, receipt_id, "failed", 100, "Gemini extraction failed")

\* Lines 118-124: the extraction returned no receipt.
NoReceipt(job_ids, objects, receipt_id) ==
   update_job_status(job_ids, objects, receipt_id, "failed", 100, "Failed to extract receipt data")

\* Line 128: job.receipt_data = receipt.dict(), on the object the coroutine
\* holds, in the store or not.
WithReceiptData(objects, receipt_id, receipt_data) ==
   [objects EXCEPT ![receipt_id].receipt_data = receipt_data]

\* Lines 126-133: the extraction returned a receipt.
ReceiptExtracted(job_ids, objects, receipt_id) ==
   update_job_status(job_ids,
                     WithReceiptData(update_job_status(job_ids, objects, receipt_id,
                                                       "processing", 90, None),
                                     receipt_id, "extracted"),
                     receipt_id, "completed", 100, None)

\* What the extraction of process_upload can give.
Extractions == {"receipt", "no receipt", "raises"}

\* process_upload from the return of run_in_executor to its end.
AfterExtraction(job_ids, objects, receipt_id, extraction) ==
   IF extraction = "raises" THEN GeminiError(job_ids, objects, receipt_id)
   ELSE IF extraction = "no receipt" THEN NoReceipt(job_ids, objects, receipt_id)
   ELSE ReceiptExtracted(job_ids, objects, receipt_id)

\* A plausible slip: the clean-up after a save is left out.
delete_job_skipped(job_ids, receipt_id) == job_ids

\* delete_job, lines 143-153: the id leaves upload_service.jobs.
delete_job(job_ids, receipt_id) == job_ids \ {receipt_id}

(***************************************************************************)
(* confirm_receipt: the route that saves a confirmed receipt               *)
(***************************************************************************)

\* A plausible slip: duplicates stop the save even when force_save is set.
DuplicatesAlwaysStopTheSave(force_save, duplicates) == duplicates # << >>

\* Lines 381-391: the duplicate check runs unless force_save is set, and a
\* non-empty result ends the request.
DuplicatesStopTheSave(force_save, duplicates) == ~force_save /\ duplicates # << >>

\* What confirm_receipt answers, and what it leaves behind.
Outcome(status_code, body, all_receipts, job_ids, storage_ids) ==
   [status_code      |-> status_code,
    body             |-> body,
    ledger           |-> all_receipts,
    jobs             |-> job_ids,
    receipts_storage |-> storage_ids]

\* Lines 380-436, for a receipt id that is known and the duplicates the check
\* finds; saved tells whether save_receipt returns True.
ConfirmKnown(receipt_id, receipt, force_save, saved, all_receipts, job_ids, storage_ids, duplicates) ==
   IF DuplicatesStopTheSave(force_save, duplicates)
   THEN Outcome(200, [success |-> FALSE, duplicate_detected |-> TRUE,
                      duplicates |-> duplicates],
                all_receipts, job_ids, storage_ids)
   ELSE IF ~saved
   THEN Outcome(500, [detail |-> "Failed to save receipt to Google Sheets"],
                all_receipts, job_ids, storage_ids)
   ELSE Outcome(200, [success |-> TRUE, items_saved |-> Len(receipt.line_items)],
                all_receipts \o ReceiptRows(receipt),
                delete_job(job_ids, receipt_id),
                IF receipt_id \in job_ids THEN storage_ids ELSE storage_ids \ {receipt_id})

\* confirm_receipt(receipt_id, request, force_save) on the ledger, the upload
\* jobs and the stored receipts as they are.
confirm_receipt(receipt_id, receipt, force_save, saved, all_receipts, matcher_lib, job_ids, storage_ids) ==
   IF receipt_id \notin job_ids /\ receipt_id \notin storage_ids
   THEN Outcome(404, [detail |-> "Receipt not found"], all_receipts, job_ids, storage_ids)
   ELSE ConfirmKnown(receipt_id, receipt, force_save, saved, all_receipts, job_ids, storage_ids,
                     find_duplicate_receipts(receipt, all_receipts, matcher_lib).duplicates)

\* The receipt ids of the uploads, and the receipts that are confirmed:
\* receipt A, receipt B and a receipt without line items.
ReceiptIds == {"r1", "r2"}

Confirmed == {1, 2, 7}

(***************************************************************************)
(* The other receipt routes: check_duplicates, reprocess, status           *)
(***************************************************************************)

\* What a route answers.
Answer(status_code, body) == [status_code |-> status_code, body |-> body]

\* check_duplicates(receipt_id), lines 314-342, on the duplicates
\* find_duplicate_receipts returns for the stored receipt.  For an id of the
\* job store line 319 reads job.receipt, an attribute UploadJob does not
\* have: the AttributeError is answered as 500 by lines 340-342.
check_duplicates(receipt_id, job_ids, storage_ids, duplicates) ==
   IF receipt_id \in job_ids
   THEN Answer(500, [detail |-> "'UploadJob' object has no attribute 'receipt'"])
   ELSE IF receipt_id \in storage_ids
   THEN Answer(200, [has_duplicates |-> duplicates # << >>, count |-> Len(duplicates)])
   ELSE Answer(404, [detail |-> "Receipt not found"])

\* reprocess_receipt(receipt_id, request), lines 456-507: what it answers.
\* extracted tells whether the extraction with the feedback gives a receipt.
reprocess_receipt(receipt_id, extracted, job_ids, storage_ids) ==
   IF receipt_id \notin job_ids /\ receipt_id \notin storage_ids
   THEN Answer(404, [detail |-> "Receipt not found"])
   ELSE IF ~extracted
   THEN Answer(422, [detail |-> "Failed to reprocess receipt"])
   ELSE Answer(200, [receipt_id |-> receipt_id])

\* Lines 490-493: the job object of the store gets the new receipt_data; its
\* status and progress stay as they are.
Reprocessed(receipt_id, extracted, job_ids, objects) ==
   IF receipt_id \in job_ids /\ extracted
   THEN WithReceiptData(objects, receipt_id, "reprocessed")
   ELSE objects

\* get_upload_status(receipt_id), lines 553-577.
get_upload_status(receipt_id, job_ids, objects, storage_ids) ==
   IF receipt_id \in job_ids
   THEN Answer(200, [status       |-> objects[receipt_id].status,
                     progress     |-> objects[receipt_id].progress,
                     receipt_data |-> objects[receipt_id].receipt_data])
   ELSE IF receipt_id \in storage_ids
   THEN Answer(200, [status |-> "completed", progress |-> 100, receipt_data |-> "extracted"])
   ELSE Answer(404, [detail |-> "Receipt not found"])

\* get_receipt(receipt_id), lines 584-601.
get_receipt(receipt_id, job_ids, objects, storage_ids) ==
   IF /\ receipt_id \in job_ids
      /\ objects[receipt_id].status = "completed"
      /\ objects[receipt_id].receipt_data # None
   THEN Answer(200, [receipt |-> objects[receipt_id].receipt_data])
   ELSE IF receipt_id \notin storage_ids
   THEN Answer(404, [detail |-> "Receipt not found"])
   ELSE Answer(200, [receipt |-> "extracted"])

(***************************************************************************)
(* State                                                                   *)
(***************************************************************************)

\* The most ledger rows.
MaxRows == 2

\* The most budgets.
MaxBudgets == 2

\* The most rows of the "Goal Transactions" sheet.
MaxTransactions == 2

\* The receipts that are saved: ReceiptA, ReceiptB and ReceiptIso.
Saved == {1, 2, 3}

VARIABLES
   ledger,   \* the rows of the "Receipts" sheet, in insertion order
   matcher,  \* the sequence matcher fuzzywuzzy found at import
   call,     \* the last operation on the ledger and what it returned
   budgets,  \* the rows of the "Budgets" sheet
   status,   \* what get_budget_status returned, and the clock it read, while the
             \* sheets are as it read them
   norm,     \* the last _normalize_category: its argument and its result
   reply,    \* what the last analysis, goal or confirm request answered, while
             \* the sheets are as it read them
   transactions,     \* the rows of the "Goal Transactions" sheet
   jobs,             \* upload_service.jobs: the asynchronous uploads by receipt id
   receipts_storage, \* the synchronous uploads by receipt id
   issued,           \* the receipt ids uuid4 has returned
   upload_job,       \* the UploadJob objects by receipt id; an object outlives
                     \* its entry in upload_service.jobs while a task holds it
   tasks,            \* the process_upload coroutines by receipt id: where each
                     \* stands and what its extraction gives
   in_flight         \* the requests that have read a sheet and are not answered
                     \* yet, by caller

vars ==
   << ledger, matcher, call, budgets, status, norm, reply, transactions, jobs,
      receipts_storage, issued, upload_job, tasks, in_flight >>

NoReply == [op |-> "none"]

\* No receipt id issued, no upload job created, no task scheduled, no request
\* in flight.
NothingInFlight ==
   /\ issued = {}
   /\ upload_job = << >>
   /\ tasks = << >>
   /\ in_flight = << >>

\* Nothing has been asked, no goal transaction recorded, nothing uploaded.
Untouched ==
   /\ reply = NoReply
   /\ transactions = << >>
   /\ jobs = {}
   /\ receipts_storage = {}
   /\ NothingInFlight

NoResult == ReturnEmpty(0)

NoCall == [op |-> "none", rid |-> 0, ok |-> TRUE, after_save |-> FALSE, result |-> NoResult]

NoStatus ==
   [done   |-> FALSE,
    now    |-> Epoch,
    result |-> get_budget_status(<< >>, << >>, Epoch)]

NoNorm == [done |-> FALSE, category |-> EmptyStr, normalized |-> EmptyStr]

(***************************************************************************)
(* Spec: saving receipts and checking for duplicates                       *)
(***************************************************************************)

Init ==
   /\ ledger = << >>
   /\ matcher \in {"difflib", "levenshtein"}
   /\ call = NoCall
   /\ budgets = << >>
   /\ status = NoStatus
   /\ norm = NoNorm
   /\ Untouched

\* save_receipt(receipt) returns True: the receipt's rows are appended.
SaveReceipt(rid) ==
   /\ Len(ledger) + Len(Receipts[rid].line_items) <= MaxRows
   /\ ledger' = ledger \o ReceiptRows(Receipts[rid])
   /\ call' = [op |-> "save", rid |-> rid, ok |-> TRUE, after_save |-> FALSE,
               result |-> NoResult]
   /\ UNCHANGED << matcher, budgets, status, norm, reply, transactions, jobs, receipts_storage >>
   /\ UNCHANGED << issued, upload_job, tasks, in_flight >>

\* save_receipt(receipt) returns False: the sheet raised, nothing is appended.
SaveReceiptFails(rid) ==
   /\ call' = [op |-> "save", rid |-> rid, ok |-> FALSE, after_save |-> FALSE,
               result |-> NoResult]
   /\ UNCHANGED << ledger, matcher, budgets, status, norm, reply, transactions, jobs, receipts_storage >>
   /\ UNCHANGED << issued, upload_job, tasks, in_flight >>

\* A row is typed into the sheet by hand.
SheetEdit(row) ==
   /\ Len(ledger) < MaxRows
   /\ ledger' = Append(ledger, row)
   /\ call' = [op |-> "edit", rid |-> 0, ok |-> TRUE, after_save |-> FALSE,
               result |-> NoResult]
   /\ UNCHANGED << matcher, budgets, status, norm, reply, transactions, jobs, receipts_storage >>
   /\ UNCHANGED << issued, upload_job, tasks, in_flight >>

\* find_duplicate_receipts(receipt) on the ledger as it is.
CheckDuplicates(rid) ==
   /\ call' = [op         |-> "check",
               rid        |-> rid,
               ok         |-> TRUE,
               after_save |-> (call.op = "save" /\ call.ok /\ call.rid = rid),
               result     |-> find_duplicate_receipts(Receipts[rid], ledger, matcher)]
   /\ UNCHANGED << ledger, matcher, budgets, status, norm, reply, transactions, jobs, receipts_storage >>
   /\ UNCHANGED << issued, upload_job, tasks, in_flight >>

Next ==
   \/ \E rid \in Saved : SaveReceipt(rid)
   \/ \E rid \in Saved : SaveReceiptFails(rid)
   \/ \E row \in HandRows : SheetEdit(row)
   \/ \E rid \in 1..Len(Receipts) : CheckDuplicates(rid)

Spec == Init /\ [][Next]_vars

(***************************************************************************)
(* SpecBudget: spending rows, budgets and the budget status                *)
(***************************************************************************)

InitBudget ==
   /\ ledger = << >>
   /\ matcher = "difflib"
   /\ call = NoCall
   /\ budgets = << >>
   /\ status = NoStatus
   /\ norm = NoNorm
   /\ Untouched

\* A line item reaches the sheet (save_receipt's append_rows).
RowAppended(row) ==
   /\ Len(ledger) < MaxRows
   /\ ledger' = Append(ledger, row)
   /\ status' = NoStatus
   /\ UNCHANGED << matcher, call, budgets, norm, reply, transactions, jobs, receipts_storage >>
   /\ UNCHANGED << issued, upload_job, tasks, in_flight >>

\* save_budget(budget)
SaveBudget(row) ==
   /\ Len(save_budget(budgets, row)) <= MaxBudgets
   /\ budgets' = save_budget(budgets, row)
   /\ status' = NoStatus
   /\ UNCHANGED << ledger, matcher, call, norm, reply, transactions, jobs, receipts_storage >>
   /\ UNCHANGED << issued, upload_job, tasks, in_flight >>

\* get_budget_status() when the clock reads now.
GetBudgetStatus(now) ==
   /\ status' = [done |-> TRUE, now |-> now,
                 result |-> get_budget_status(budgets, ledger, now)]
   /\ UNCHANGED << ledger, matcher, call, budgets, norm, reply, transactions, jobs, receipts_storage >>
   /\ UNCHANGED << issued, upload_job, tasks, in_flight >>

NextBudget ==
   \/ \E row \in SpendRows : RowAppended(row)
   \/ \E row \in BudgetChoices : SaveBudget(row)
   \/ \E now \in Clock : GetBudgetStatus(now)

SpecBudget == InitBudget /\ [][NextBudget]_vars

(***************************************************************************)
(* SpecNorm: the category normalizer on its own                            *)
(***************************************************************************)

InitNorm ==
   /\ ledger = << >>
   /\ matcher = "difflib"
   /\ call = NoCall
   /\ budgets = << >>
   /\ status = NoStatus
   /\ norm \in {[done |-> FALSE, category |-> c, normalized |-> EmptyStr] : c \in Labels}
   /\ Untouched

\* _normalize_category(category)
Normalize ==
   /\ ~norm.done
   /\ norm' = [norm EXCEPT !.done = TRUE, !.normalized = normalize_category(norm.category)]
   /\ UNCHANGED << ledger, matcher, call, budgets, status, reply, transactions, jobs, receipts_storage >>
   /\ UNCHANGED << issued, upload_job, tasks, in_flight >>

NextNorm == Normalize

SpecNorm == InitNorm /\ [][NextNorm]_vars

(***************************************************************************)
(* The rows and the queries the analysis model draws from                  *)
(***************************************************************************)

Dec01 == S(<<"0", "1", "-", "1", "2", "-", "2", "0", "2", "4">>)

Oct10 == S(<<"1", "0", "-", "1", "0", "-", "2", "0", "2", "4">>)

Nov15 == S(<<"1", "5", "-", "1", "1", "-", "2", "0", "2", "4">>)

\* Spending on the first day of December 2024; in October 2024, more than
\* 90 days before every clock reading; a refund, written yyyy-mm-dd.
GroceriesDec01 == SpendRow(Dec01, Groceries, NumCell(150000))

GroceriesOct10 == SpendRow(Oct10, Groceries, NumCell(100000))

RefundJan10 == SpendRow(Jan10Iso, Groceries, NumCell(-4000))

AnalysisRows == SpendRows \cup {GroceriesDec01, GroceriesOct10, RefundJan10}

\* Two Dining rows of 10 and 20 in January 2025.
TwoDining == << SpendRow(Jan15, Dining, NumCell(10000)), SpendRow(Jan20, Dining, NumCell(20000)) >>

\* Three months of Groceries: 100, 150 and 50.
ThreeMonths ==
   << SpendRow(Nov15, Groceries, NumCell(100000)),
      GroceriesDec01,
      SpendRow(Jan15, Groceries, NumCell(50000)) >>

DateFilter(date_filter, start_date, end_date) ==
   [date_filter |-> date_filter, start_date |-> start_date, end_date |-> end_date]

NoFilter == DateFilter("all", EmptyStr, EmptyStr)

\* A custom range whose start does not parse, one whose end does not, and
\* one that does.
CustomBadStart == DateFilter("custom", Jan15Slashes, Jan20Iso)

CustomBadEnd == DateFilter("custom", Jan10Iso, Jan15Slashes)

CustomJan10To20 == DateFilter("custom", Jan10Iso, Jan20Iso)

DateFilters ==
   {NoFilter, CustomBadStart, CustomBadEnd, CustomJan10To20}
   \cup {DateFilter(f, EmptyStr, EmptyStr) :
           f \in {"this_month", "last_month", "last_7", "last_30", "last_90", "this_year"}}

TrendQueries ==
   {[period |-> "monthly", filter |-> f] : f \in DateFilters}
   \cup {[period |-> "weekly", filter |-> f] : f \in {NoFilter, DateFilter("this_month", EmptyStr, EmptyStr)}}

CategoryQuery(filter, categories, min_amount, max_amount) ==
   [filter |-> filter, categories |-> categories,
    min_amount |-> min_amount, max_amount |-> max_amount]

CategoryQueries ==
   {CategoryQuery(f, {}, Unbounded, Unbounded) : f \in DateFilters}
   \cup {CategoryQuery(NoFilter, {Dining}, Unbounded, Unbounded),
         CategoryQuery(NoFilter, {}, Bound(5000), Bound(20000)),
         CategoryQuery(NoFilter, {Groceries, Dining}, Bound(-5000), Unbounded)}

SpendingQuery(period_type, start_date, end_date) ==
   [category |-> Grocery, period |-> "monthly", period_type |-> period_type,
    start_date |-> start_date, end_date |-> end_date]

SpendingQueries ==
   {SpendingQuery("calendar_month", EmptyStr, EmptyStr),
    SpendingQuery("custom", Jan15Slashes, Jan20Iso),
    SpendingQuery("custom", Jan10Iso, Jan15Slashes),
    SpendingQuery("custom", Jan10Iso, Jan20Iso)}

(***************************************************************************)
(* SpecAnalysis: spending rows and the analysis queries                    *)
(***************************************************************************)

InitAnalysis ==
   /\ ledger \in {<< >>, TwoDining, ThreeMonths}
   /\ matcher = "difflib"
   /\ call = NoCall
   /\ budgets = << >>
   /\ status = NoStatus
   /\ norm = NoNorm
   /\ reply = NoReply
   /\ transactions = << >>
   /\ jobs = {}
   /\ receipts_storage = {}
   /\ NothingInFlight

\* A line item reaches the sheet (save_receipt's append_rows).
AnalysisRowAppended(row) ==
   /\ Len(ledger) < MaxRows
   /\ ledger' = Append(ledger, row)
   /\ reply' = NoReply
   /\ UNCHANGED << matcher, call, budgets, status, norm, transactions, jobs, receipts_storage >>
   /\ UNCHANGED << issued, upload_job, tasks, in_flight >>

\* get_trends(period, date_filter, start_date, end_date) when the clock
\* reads now.
GetTrends(query, now) ==
   /\ reply = NoReply
   /\ reply' = [op |-> "get_trends", query |-> query, now |-> now,
                result |-> get_trends(query.period, query.filter.date_filter,
                                      query.filter.start_date, query.filter.end_date,
                                      ledger, now)]
   /\ UNCHANGED << ledger, matcher, call, budgets, status, norm, transactions, jobs, receipts_storage >>
   /\ UNCHANGED << issued, upload_job, tasks, in_flight >>

\* get_forecast() when the clock reads now.
GetForecast(now) ==
   /\ reply = NoReply
   /\ reply' = [op |-> "get_forecast", now |-> now, result |-> get_forecast(ledger, now)]
   /\ UNCHANGED << ledger, matcher, call, budgets, status, norm, transactions, jobs, receipts_storage >>
   /\ UNCHANGED << issued, upload_job, tasks, in_flight >>

\* get_category_analysis(period, start_date, end_date, categories,
\* min_amount, max_amount) when the clock reads now.
GetCategoryAnalysis(query, now) ==
   /\ reply = NoReply
   /\ reply' = [op |-> "get_category_analysis", query |-> query, now |-> now,
                result |-> get_category_analysis(query.filter.date_filter,
                                                 query.filter.start_date, query.filter.end_date,
                                                 query.categories, query.min_amount,
                                                 query.max_amount, ledger, now)]
   /\ UNCHANGED << ledger, matcher, call, budgets, status, norm, transactions, jobs, receipts_storage >>
   /\ UNCHANGED << issued, upload_job, tasks, in_flight >>

\* calculate_budget_spending(category, period, period_type, start_date,
\* end_date) when the clock reads now.
BudgetSpending(query, now) ==
   /\ reply = NoReply
   /\ reply' = [op |-> "calculate_budget_spending", query |-> query, now |-> now,
                result |-> calculate_budget_spending(query.category, query.period,
                                                     query.period_type, query.start_date,
                                                     query.end_date, ledger, now)]
   /\ UNCHANGED << ledger, matcher, call, budgets, status, norm, transactions, jobs, receipts_storage >>
   /\ UNCHANGED << issued, upload_job, tasks, in_flight >>

\* The route handler returns: the answer leaves the service, which takes the
\* next request.
ReplyReturned ==
   /\ reply # NoReply
   /\ reply' = NoReply
   /\ UNCHANGED << ledger, matcher, call, budgets, status, norm, transactions, jobs, receipts_storage >>
   /\ UNCHANGED << issued, upload_job, tasks, in_flight >>

NextAnalysis ==
   \/ \E row \in AnalysisRows : AnalysisRowAppended(row)
   \/ \E query \in TrendQueries, now \in Clock : GetTrends(query, now)
   \/ \E now \in Clock : GetForecast(now)
   \/ \E query \in CategoryQueries, now \in Clock : GetCategoryAnalysis(query, now)
   \/ \E query \in SpendingQueries, now \in Clock : BudgetSpending(query, now)
   \/ ReplyReturned

SpecAnalysis == InitAnalysis /\ [][NextAnalysis]_vars

(***************************************************************************)
(* SpecGoals: spending rows, goal transactions and the goals' progress     *)
(***************************************************************************)

InitGoals ==
   /\ ledger = << >>
   /\ matcher = "difflib"
   /\ call = NoCall
   /\ budgets = << >>
   /\ status = NoStatus
   /\ norm = NoNorm
   /\ reply = NoReply
   /\ transactions = << >>
   /\ jobs = {}
   /\ receipts_storage = {}
   /\ NothingInFlight

\* A line item reaches the sheet (save_receipt's append_rows).
GoalRowAppended(row) ==
   /\ Len(ledger) < MaxRows
   /\ ledger' = Append(ledger, row)
   /\ reply' = NoReply
   /\ UNCHANGED << matcher, call, budgets, status, norm, transactions, jobs, receipts_storage >>
   /\ UNCHANGED << issued, upload_job, tasks, in_flight >>

\* save_goal_transaction(transaction)
SaveGoalTransaction(transaction) ==
   /\ Len(transactions) < MaxTransactions
   /\ transactions' = Append(transactions, transaction)
   /\ reply' = NoReply
   /\ UNCHANGED << ledger, matcher, call, budgets, status, norm, jobs, receipts_storage >>
   /\ UNCHANGED << issued, upload_job, tasks, in_flight >>

\* The "Goal Transactions" sheet is edited by hand: an Amount is cleared.
TransactionSheetEdit(k) ==
   /\ transactions[k].Amount.isNum
   /\ transactions' = [transactions EXCEPT ![k].Amount = BlankCell]
   /\ reply' = NoReply
   /\ UNCHANGED << ledger, matcher, call, budgets, status, norm, jobs, receipts_storage >>
   /\ UNCHANGED << issued, upload_job, tasks, in_flight >>

\* get_goals(), for one auto-tracked or hand-tracked goal of the "Goals"
\* sheet: calculate_goal_progress(goal) when the clock reads now.
CalculateGoalProgress(goal, now) ==
   /\ reply = NoReply
   /\ reply' = [op |-> "calculate_goal_progress", goal |-> goal, now |-> now,
                result |-> calculate_goal_progress(goal, transactions, ledger, now)]
   /\ UNCHANGED << ledger, matcher, call, budgets, status, norm, transactions, jobs, receipts_storage >>
   /\ UNCHANGED << issued, upload_job, tasks, in_flight >>

NextGoals ==
   \/ \E row \in GoalRows : GoalRowAppended(row)
   \/ \E transaction \in GoalTransactions : SaveGoalTransaction(transaction)
   \/ \E k \in 1..Len(transactions) : TransactionSheetEdit(k)
   \/ \E goal \in Goals, now \in GoalClock : CalculateGoalProgress(goal, now)
   \/ ReplyReturned

SpecGoals == InitGoals /\ [][NextGoals]_vars

(***************************************************************************)
(* SpecConfirm: uploads and confirmations                                  *)
(***************************************************************************)

InitConfirm ==
   /\ ledger = << >>
   /\ matcher \in {"difflib", "levenshtein"}
   /\ call = NoCall
   /\ budgets = << >>
   /\ status = NoStatus
   /\ norm = NoNorm
   /\ reply = NoReply
   /\ transactions = << >>
   /\ jobs = {}
   /\ receipts_storage = {}
   /\ NothingInFlight

\* upload_receipt(file, async_processing): a job is created, or the
\* extracted receipt is stored, under a fresh receipt id.
UploadReceipt(receipt_id, async_processing) ==
   /\ receipt_id \notin jobs \cup receipts_storage
   /\ jobs' = IF async_processing THEN jobs \cup {receipt_id} ELSE jobs
   /\ receipts_storage' = IF async_processing THEN receipts_storage
                          ELSE receipts_storage \cup {receipt_id}
   /\ reply' = NoReply
   /\ UNCHANGED << ledger, matcher, call, budgets, status, norm, transactions >>
   /\ UNCHANGED << issued, upload_job, tasks, in_flight >>

\* The outcome of a confirm_receipt request takes effect and is answered.
Answered(receipt_id, rid, force_save, saved, outcome) ==
   /\ Len(outcome.ledger) <= MaxRows
   /\ ledger' = outcome.ledger
   /\ jobs' = outcome.jobs
   /\ receipts_storage' = outcome.receipts_storage
   /\ reply' = [op |-> "confirm_receipt", receipt_id |-> receipt_id, rid |-> rid,
                force_save |-> force_save, saved |-> saved,
                status_code |-> outcome.status_code,
                body |-> outcome.body]

\* confirm_receipt(receipt_id, request, force_save) with receipt rid in the
\* request.
ConfirmReceipt(receipt_id, rid, force_save, saved) ==
   /\ reply = NoReply
   /\ Answered(receipt_id, rid, force_save, saved,
               confirm_receipt(receipt_id, Receipts[rid], force_save, saved,
                               ledger, matcher, jobs, receipts_storage))
   /\ UNCHANGED << matcher, call, budgets, status, norm, transactions >>
   /\ UNCHANGED << issued, upload_job, tasks, in_flight >>

NextConfirm ==
   \/ \E receipt_id \in ReceiptIds, async_processing \in BOOLEAN :
         UploadReceipt(receipt_id, async_processing)
   \/ \E receipt_id \in ReceiptIds, rid \in Confirmed, force_save \in BOOLEAN, saved \in BOOLEAN :
         ConfirmReceipt(receipt_id, rid, force_save, saved)
   \/ ReplyReturned

SpecConfirm == InitConfirm /\ [][NextConfirm]_vars

(***************************************************************************)
(* SpecUpload: uploads, process_upload and the routes on one event loop    *)
(***************************************************************************)

\* The receipt every extraction returns and every confirm request carries:
\* receipt B.
Extracted == 2

InitUpload ==
   /\ ledger = << >>
   /\ matcher = "difflib"
   /\ call = NoCall
   /\ budgets = << >>
   /\ status = NoStatus
   /\ norm = NoNorm
   /\ Untouched

\* What a route answered for a receipt id.
Replied(op, receipt_id, answer) ==
   [op |-> op, receipt_id |-> receipt_id, status_code |-> answer.status_code,
    body |-> answer.body]

\* upload_receipt(file, async_processing = True), lines 222-263: a job is
\* created under a fresh id and process_upload is added to the background
\* tasks.
UploadAsync(receipt_id) ==
   /\ reply = NoReply
   /\ receipt_id \notin issued
   /\ issued' = issued \cup {receipt_id}
   /\ jobs' = jobs \cup {receipt_id}
   /\ upload_job' = (receipt_id :> NewJob) @@ upload_job
   /\ tasks' = (receipt_id :> [pc |-> "scheduled", extraction |-> None]) @@ tasks
   /\ reply' = Replied("upload_receipt", receipt_id, Answer(200, [receipt |-> None]))
   /\ UNCHANGED << ledger, matcher, call, budgets, status, norm, transactions,
                   receipts_storage, in_flight >>

\* upload_receipt(file, async_processing = False), lines 222-292: the
\* receipt is extracted in the request and stored, or 422 is answered.
UploadSync(receipt_id, extracted) ==
   /\ reply = NoReply
   /\ receipt_id \notin issued
   /\ issued' = issued \cup {receipt_id}
   /\ receipts_storage' = IF extracted THEN receipts_storage \cup {receipt_id}
                          ELSE receipts_storage
   /\ reply' = Replied("upload_receipt", receipt_id,
                       IF extracted THEN Answer(200, [receipt |-> "extracted"])
                       ELSE Answer(422, [detail |-> "Failed to extract receipt data"]))
   /\ UNCHANGED << ledger, matcher, call, budgets, status, norm, transactions, jobs,
                   upload_job, tasks, in_flight >>

\* process_upload, lines 66-76: the job is looked up and marked PROCESSING at
\* 10; the coroutine then awaits asyncio.sleep.
ProcessUploadStarts(receipt_id) ==
   /\ receipt_id \in DOMAIN tasks
   /\ tasks[receipt_id].pc = "scheduled"
   /\ tasks' = [tasks EXCEPT ![receipt_id].pc =
                   IF receipt_id \in jobs THEN "sleeping" ELSE "done"]
   /\ upload_job' = update_job_status(jobs, upload_job, receipt_id, "processing", 10, None)
   /\ UNCHANGED << ledger, matcher, call, budgets, status, norm, reply, transactions, jobs,
                   receipts_storage, issued, in_flight >>

\* process_upload, lines 77-107: PROCESSING at 30; the coroutine then awaits
\* the extraction, which runs in the executor.
ProcessUploadExtracts(receipt_id) ==
   /\ receipt_id \in DOMAIN tasks
   /\ tasks[receipt_id].pc = "sleeping"
   /\ tasks' = [tasks EXCEPT ![receipt_id].pc = "extracting"]
   /\ upload_job' = update_job_status(jobs, upload_job, receipt_id, "processing", 30, None)
   /\ UNCHANGED << ledger, matcher, call, budgets, status, norm, reply, transactions, jobs,
                   receipts_storage, issued, in_flight >>

\* process_upload, lines 108-133: the extraction is back.
ProcessUploadEnds(receipt_id, extraction) ==
   /\ receipt_id \in DOMAIN tasks
   /\ tasks[receipt_id].pc = "extracting"
   /\ tasks' = [tasks EXCEPT ![receipt_id] = [pc |-> "done", extraction |-> extraction]]
   /\ upload_job' = AfterExtraction(jobs, upload_job, receipt_id, extraction)
   /\ UNCHANGED << ledger, matcher, call, budgets, status, norm, reply, transactions, jobs,
                   receipts_storage, issued, in_flight >>

\* reprocess_receipt(receipt_id, request)
ReprocessReceipt(receipt_id, extracted) ==
   /\ reply = NoReply
   /\ receipt_id \in issued
   /\ upload_job' = Reprocessed(receipt_id, extracted, jobs, upload_job)
   /\ reply' = Replied("reprocess_receipt", receipt_id,
                       reprocess_receipt(receipt_id, extracted, jobs, receipts_storage))
   /\ UNCHANGED << ledger, matcher, call, budgets, status, norm, transactions, jobs,
                   receipts_storage, issued, tasks, in_flight >>

\* check_duplicates(receipt_id)
CheckDuplicatesOf(receipt_id) ==
   /\ reply = NoReply
   /\ reply' = Replied("check_duplicates", receipt_id,
                       check_duplicates(receipt_id, jobs, receipts_storage,
                                        find_duplicate_receipts(Receipts[Extracted], ledger,
                                                                matcher).duplicates))
   /\ UNCHANGED << ledger, matcher, call, budgets, status, norm, transactions, jobs,
                   receipts_storage, issued, upload_job, tasks, in_flight >>

\* get_upload_status(receipt_id)
GetUploadStatus(receipt_id) ==
   /\ reply = NoReply
   /\ receipt_id \in issued
   /\ reply' = Replied("get_upload_status", receipt_id,
                       get_upload_status(receipt_id, jobs, upload_job, receipts_storage))
   /\ UNCHANGED << ledger, matcher, call, budgets, status, norm, transactions, jobs,
                   receipts_storage, issued, upload_job, tasks, in_flight >>

\* get_receipt(receipt_id)
GetReceipt(receipt_id) ==
   /\ reply = NoReply
   /\ receipt_id \in issued
   /\ reply' = Replied("get_receipt", receipt_id,
                       get_receipt(receipt_id, jobs, upload_job, receipts_storage))
   /\ UNCHANGED << ledger, matcher, call, budgets, status, norm, transactions, jobs,
                   receipts_storage, issued, upload_job, tasks, in_flight >>

\* confirm_receipt(receipt_id, request, force_save) with the extracted
\* receipt in the request.
ConfirmUploaded(receipt_id, force_save, saved) ==
   /\ reply = NoReply
   /\ Answered(receipt_id, Extracted, force_save, saved,
               confirm_receipt(receipt_id, Receipts[Extracted], force_save, saved,
                               ledger, matcher, jobs, receipts_storage))
   /\ UNCHANGED << matcher, call, budgets, status, norm, transactions, issued, upload_job,
                   tasks, in_flight >>

NextUpload ==
   \/ \E receipt_id \in ReceiptIds : UploadAsync(receipt_id)
   \/ \E receipt_id \in ReceiptIds, extracted \in BOOLEAN : UploadSync(receipt_id, extracted)
   \/ \E receipt_id \in ReceiptIds : ProcessUploadStarts(receipt_id)
   \/ \E receipt_id \in ReceiptIds : ProcessUploadExtracts(receipt_id)
   \/ \E receipt_id \in ReceiptIds, extraction \in Extractions :
         ProcessUploadEnds(receipt_id, extraction)
   \/ \E receipt_id \in ReceiptIds, extracted \in BOOLEAN :
         ReprocessReceipt(receipt_id, extracted)
   \/ \E receipt_id \in ReceiptIds : CheckDuplicatesOf(receipt_id)
   \/ \E receipt_id \in ReceiptIds : GetUploadStatus(receipt_id)
   \/ \E receipt_id \in ReceiptIds : GetReceipt(receipt_id)
   \/ \E receipt_id \in ReceiptIds, force_save \in BOOLEAN, saved \in BOOLEAN :
         ConfirmUploaded(receipt_id, force_save, saved)
   \/ ReplyReturned

SpecUpload == InitUpload /\ [][NextUpload]_vars

\* The event loop runs every coroutine that can run, the sleep ends and the
\* executor hands the extraction back.
SpecUploadFair ==
   /\ SpecUpload
   /\ \A receipt_id \in ReceiptIds :
         /\ WF_vars(ProcessUploadStarts(receipt_id))
         /\ WF_vars(ProcessUploadExtracts(receipt_id))
         /\ WF_vars(\E extraction \in Extractions : ProcessUploadEnds(receipt_id, extraction))

(***************************************************************************)
(* SpecStatus: get_budget_status, sheet read by sheet read                 *)
(***************************************************************************)

\* A row of the Budgets sheet typed by hand: its Limit cell is kept as the
\* sheet returns it.  The rows save_budget writes hold a number.
HandBudget(id, category, limit_cell, period, period_type) ==
   [ID |-> id, Category |-> category, Limit |-> limit_cell.num, LimitCell |-> limit_cell,
    Period |-> period, PeriodType |-> period_type, StartDate |-> EmptyStr,
    EndDate |-> EmptyStr]

\* A second monthly budget for the category of BudgetMonth, and a budget
\* whose Limit cell is blank.
BudgetMonthTwin == MakeBudget("b5", Grocery, 40000, "monthly", "calendar_month", EmptyStr, EmptyStr)

BudgetBlankLimit == HandBudget("b6", Grocery, BlankCell, "monthly", "calendar_month")

\* get_budget_status, line 421: float(budget_row.get("Limit", 0)) raises
\* ValueError on a cell that holds no number.
LimitRaises(budget_row) ==
   "LimitCell" \in DOMAIN budget_row /\ ~budget_row.LimitCell.isNum

\* get_budget_status, lines 456-463: the totals over the reports of the
\* budgets.
BudgetStatusOf(budget_data, reports) ==
   [budgets            |-> reports,
    total_budget       |-> SumSeq([b \in 1..Len(budget_data) |-> budget_data[b].Limit]),
    total_spent        |-> SumSeq([b \in 1..Len(reports) |-> reports[b].current_spend]),
    overall_percentage |->
       PercentageUsed(SumSeq([b \in 1..Len(reports) |-> reports[b].current_spend]),
                      SumSeq([b \in 1..Len(budget_data) |-> budget_data[b].Limit]))]

\* The caller of get_budget_status, and the clock its request reads: the
\* afternoon of 15 January 2025.
StatusCaller == "budget-status"

StatusClock == {now \in Clock : now.y = 2025 /\ now.sec > 0}

InitStatus ==
   /\ ledger = << >>
   /\ matcher = "difflib"
   /\ call = NoCall
   /\ budgets \in {<< BudgetMonth >>, << BudgetMonth, BudgetMonthTwin >>}
   /\ status = NoStatus
   /\ norm = NoNorm
   /\ Untouched

\* Another writer appends a line item to the Receipts sheet: a confirm of
\* another request or process, or the command-line processor.
StatusRowAppended(row) ==
   /\ reply = NoReply
   /\ Len(ledger) < MaxRows
   /\ ledger' = Append(ledger, row)
   /\ UNCHANGED << matcher, call, budgets, status, norm, reply, transactions, jobs,
                   receipts_storage, issued, upload_job, tasks, in_flight >>

\* A budget row is typed into the Budgets sheet by hand.
BudgetSheetEdit(row) ==
   /\ reply = NoReply
   /\ Len(budgets) < MaxBudgets
   /\ budgets' = Append(budgets, row)
   /\ UNCHANGED << ledger, matcher, call, status, norm, reply, transactions, jobs,
                   receipts_storage, issued, upload_job, tasks, in_flight >>

\* get_budget_status, lines 411-417: the Budgets sheet is read and the clock.
BudgetStatusBegins(now) ==
   /\ reply = NoReply
   /\ StatusCaller \notin DOMAIN in_flight
   /\ in_flight' = (StatusCaller :> [op |-> "get_budget_status", now |-> now,
                                     budget_data |-> budgets, reports |-> << >>,
                                     reads |-> 0])
   /\ UNCHANGED << ledger, matcher, call, budgets, status, norm, reply, transactions, jobs,
                   receipts_storage, issued, upload_job, tasks >>

\* The budget the request in flight evaluates next.
NextBudgetRow(request) == request.budget_data[Len(request.reports) + 1]

\* get_budget_status, lines 419-454, for the next budget:
\* calculate_budget_spending reads the Receipts sheet (line 631) and the
\* report of the budget is built.
BudgetEvaluated ==
   /\ StatusCaller \in DOMAIN in_flight
   /\ Len(in_flight[StatusCaller].reports) < Len(in_flight[StatusCaller].budget_data)
   /\ ~LimitRaises(NextBudgetRow(in_flight[StatusCaller]))
   /\ in_flight' =
         [in_flight EXCEPT ![StatusCaller].reports =
                              Append(@, BudgetReport(NextBudgetRow(in_flight[StatusCaller]),
                                                     ledger, in_flight[StatusCaller].now)),
                           ![StatusCaller].reads = @ + 1]
   /\ UNCHANGED << ledger, matcher, call, budgets, status, norm, reply, transactions, jobs,
                   receipts_storage, issued, upload_job, tasks >>

\* get_budget_status, line 421, on a budget whose Limit is no number: the
\* ValueError leaves get_budget_status.
BudgetStatusRaises ==
   /\ StatusCaller \in DOMAIN in_flight
   /\ Len(in_flight[StatusCaller].reports) < Len(in_flight[StatusCaller].budget_data)
   /\ LimitRaises(NextBudgetRow(in_flight[StatusCaller]))
   /\ reply' = [op |-> "get_budget_status", outcome |-> "raised ValueError",
                now |-> in_flight[StatusCaller].now,
                reads |-> in_flight[StatusCaller].reads,
                result |-> BudgetStatusOf(<< >>, << >>)]
   /\ in_flight' = << >>
   /\ UNCHANGED << ledger, matcher, call, budgets, status, norm, transactions, jobs,
                   receipts_storage, issued, upload_job, tasks >>

\* get_budget_status, lines 456-463: every budget is evaluated, the status
\* is returned.
BudgetStatusReturns ==
   /\ StatusCaller \in DOMAIN in_flight
   /\ Len(in_flight[StatusCaller].reports) = Len(in_flight[StatusCaller].budget_data)
   /\ reply' = [op |-> "get_budget_status", outcome |-> "returned",
                now |-> in_flight[StatusCaller].now,
                reads |-> in_flight[StatusCaller].reads,
                result |-> BudgetStatusOf(in_flight[StatusCaller].budget_data,
                                          in_flight[StatusCaller].reports)]
   /\ in_flight' = << >>
   /\ UNCHANGED << ledger, matcher, call, budgets, status, norm, transactions, jobs,
                   receipts_storage, issued, upload_job, tasks >>

NextStatus ==
   \/ \E row \in {SpendJan15, SpendJan20, SpendDining} : StatusRowAppended(row)
   \/ BudgetSheetEdit(BudgetBlankLimit)
   \/ \E now \in StatusClock : BudgetStatusBegins(now)
   \/ BudgetEvaluated
   \/ BudgetStatusRaises
   \/ BudgetStatusReturns
   \/ ReplyReturned

SpecStatus == InitStatus /\ [][NextStatus]_vars

(***************************************************************************)
(* SpecRace: confirms of server processes that share the sheet             *)
(***************************************************************************)

\* The server processes that serve the routes on one spreadsheet.  The
\* handler of a process awaits nothing between its duplicate check and its
\* append, so one process handles one confirm at a time; the processes run
\* side by side.
Servers == {"s1", "s2"}

\* The receipts the processes confirm: receipt B and the receipt dated
\* yyyy-mm-dd, one line item each.
RaceReceipts == {2, 3}

\* The receipt id under which a process holds the receipt it confirms.
HeldAs(server) == IF server = "s1" THEN "r1" ELSE "r2"

InitRace ==
   /\ ledger = << >>
   /\ matcher \in {"difflib", "levenshtein"}
   /\ call = NoCall
   /\ budgets = << >>
   /\ status = NoStatus
   /\ norm = NoNorm
   /\ Untouched

\* confirm_receipt, lines 379-391: the first store operation.  The
\* duplicate check reads the Receipts sheet, unless force_save is set.
ConfirmChecks(server, rid, force_save) ==
   /\ server \notin DOMAIN in_flight
   /\ in_flight' =
         in_flight @@
         (server :> [op         |-> "confirm_receipt",
                     rid        |-> rid,
                     force_save |-> force_save,
                     seen       |-> Len(ledger),
                     duplicates |->
                        IF force_save THEN << >>
                        ELSE find_duplicate_receipts(Receipts[rid], ledger, matcher).duplicates])
   /\ UNCHANGED << ledger, matcher, call, budgets, status, norm, reply, transactions, jobs,
                   receipts_storage, issued, upload_job, tasks >>

\* confirm_receipt, lines 386-436, and save_receipt, lines 151-155: the
\* second store operation.  The request is answered on the duplicates its
\* check found; the rows are appended to the sheet as it is by now.
ConfirmAppends(server, saved) ==
   /\ reply = NoReply
   /\ server \in DOMAIN in_flight
   /\ LET request == in_flight[server]
          outcome == ConfirmKnown(HeldAs(server), Receipts[request.rid], request.force_save,
                                  saved, ledger, {}, {HeldAs(server)}, request.duplicates)
      IN  /\ Len(outcome.ledger) <= MaxRows
          /\ ledger' = outcome.ledger
          /\ reply' = [op          |-> "confirm_receipt",
                       receipt_id  |-> HeldAs(server),
                       rid         |-> request.rid,
                       force_save  |-> request.force_save,
                       saved       |-> saved,
                       seen        |-> request.seen,
                       before      |-> ledger,
                       status_code |-> outcome.status_code,
                       body        |-> outcome.body]
   /\ in_flight' = [s \in DOMAIN in_flight \ {server} |-> in_flight[s]]
   /\ UNCHANGED << matcher, call, budgets, status, norm, transactions, jobs,
                   receipts_storage, issued, upload_job, tasks >>

NextRace ==
   \/ \E server \in Servers, rid \in RaceReceipts, force_save \in BOOLEAN :
         ConfirmChecks(server, rid, force_save)
   \/ \E server \in Servers, saved \in BOOLEAN : ConfirmAppends(server, saved)
   \/ ReplyReturned

SpecRace == InitRace /\ [][NextRace]_vars

(***************************************************************************)
(* Duplicate detection: the properties                                     *)
(***************************************************************************)

Checked == call.op = "check"

Candidate == Receipts[call.rid]

Duplicates == call.result.duplicates

\* C1: a receipt checked immediately after it was saved successfully is
\* reported: the result holds a candidate with match_percentage >= 70 and
\* merchant_score >= 85.  Stated here for the receipts whose date is written
\* dd-mm-yyyy, the case most favourable to the claim.
C1_SavedReceiptIsReported ==
   (Checked /\ call.after_save /\ Strptime(Candidate.purchase_date, "dmy").ok)
      => \E d \in 1..Len(Duplicates) :
            /\ Duplicates[d].match_percentage >= 10 * DuplicatePercentage
            /\ Duplicates[d].merchant_score >= fuzzy_threshold

LedgerHoldsReceiptA == ledger = ReceiptRows(ReceiptA)

\* C2 as claimed: with receipt A in the ledger, the candidate "WAL-MART"
\* (receipt 4) gets exactly one candidate back, with match_percentage 100.
C2_WalDashMartIsReported ==
   (Checked /\ LedgerHoldsReceiptA /\ Candidate = CandidateWalDashMart)
      => (Len(Duplicates) = 1 /\ Duplicates[1].match_percentage = 1000)

\* C2 as amended: with receipt A in the ledger, the candidate "WAL-MART" gets
\* nothing back, because the merchant score of "wal-mart" against "walmart"
\* is 53, under the threshold of 85, and no row survives the merchant filter;
\* the candidate "WALMART" (which differs from the stored merchant by case
\* only) gets exactly one candidate back, with match_percentage 100 and
\* merchant score 100.
C2_WalDashMartScoresBelowThreshold ==
   (Checked /\ LedgerHoldsReceiptA)
      => /\ Candidate = CandidateWalDashMart
            => /\ Duplicates = << >>
               /\ call.result.df_match = << >>
               /\ call.result.examined = 2
               /\ \A i \in 1..Len(ledger) :
                     MerchantScore(ledger[i].Merchant,
                                   StrStrip(StrLower(WalDashMart)), matcher) = 53
         /\ Candidate = CandidateUpper
            => /\ Len(Duplicates) = 1
               /\ Duplicates[1].match_percentage = 1000
               /\ Duplicates[1].merchant_score = 100

C2_Witness == Checked /\ LedgerHoldsReceiptA /\ Candidate = CandidateWalDashMart

\* The reconstructed receipt a score or a summary is about.
GroupOfKey(key) ==
   call.result.receipt_groups[GroupIndex(call.result.receipt_groups, key)]

\* The candidate items that have a similar item in the group: no group item
\* is used up.
SimilarItems(candidate, group) ==
   {i \in 1..Len(candidate.line_items) :
      \E j \in 1..Len(group.items) :
         FuzzRatio(normalize_item_name(candidate.line_items[i].item_name),
                   normalize_item_name(group.items[j].Item), matcher) >= 85}

\* C3: for every group that was compared with the candidate, matched_count is
\* the number of candidate items with a similar group item (ratio >= 85 of
\* the normalized names, no group item used up); match_percentage is
\* matched_count / max(candidate items, group items) * 100, 0 when both are
\* empty, and lies in 0..100; and the group is returned exactly when
\* match_percentage >= 70.
C3_MatchPercentage ==
   Checked =>
      \A s \in 1..Len(call.result.scored) :
         LET score   == call.result.scored[s]
             group   == GroupOfKey(score.key)
             matched == Cardinality(SimilarItems(Candidate, group))
             most    == Max2(Len(Candidate.line_items), Len(group.items))
         IN  /\ score.matched_count = matched
             /\ score.total_items = most
             /\ score.match_percentage =
                   (IF most = 0 THEN 0 ELSE RoundHalfEven(1000 * matched, most))
             /\ score.match_percentage \in 0..1000
             /\ (\E d \in 1..Len(Duplicates) :
                    /\ Duplicates[d].Date = group.Date
                    /\ Duplicates[d].Merchant = group.Merchant
                    /\ Duplicates[d].GrandTotal = group.GrandTotal
                    /\ Duplicates[d].match_percentage = score.match_percentage)
                <=> (most > 0 /\ 100 * matched >= 70 * most)

\* Three of four candidate items matched, two of them by the same group item.
C3_Witness ==
   /\ Checked
   /\ \E s \in 1..Len(call.result.scored) :
         /\ call.result.scored[s].matched_count = 3
         /\ call.result.scored[s].total_items = 4
         /\ Len(GroupOfKey(call.result.scored[s].key).items) = 2
   /\ Len(Duplicates) = 1

\* C4: every returned candidate has a grand total within 0.01 of the
\* candidate receipt's total.
C4_ReturnedTotalsWithinTolerance ==
   Checked =>
      \A d \in 1..Len(Duplicates) :
         /\ ~Duplicates[d].GrandTotal.nan
         /\ Abs(Duplicates[d].GrandTotal.v - Candidate.total_amounts.total) <= TotalTolerance

\* The rows a call reconstructed receipts from, and the receipts.
Survivors == call.result.df_match

Groups == call.result.receipt_groups

\* A grand total rounded to two decimals (blank totals are all alike).
RoundedTotal(x) ==
   IF x.nan THEN << "nan", 0 >>
   ELSE << "number", (IF x.v < 0 THEN -1 ELSE 1) * RoundHalfEven(Abs(x.v), 10) >>

\* What the claim groups rows by.
ReceiptOf(row) == << row.Date, row.Merchant, RoundedTotal(row.GrandTotal) >>

HasZeroTotal(row) == row.GrandTotal = Float(0)

TotalLower == S(<<"t", "o", "t", "a", "l">>)

\* An item name that is blank or is "TOTAL" in any case.
IsTotalOrBlank(name) ==
   \/ \A i \in 1..Len(name) : IsSpace(name[i])
   \/ StrLower(StrStrip(name)) = TotalLower

\* C5: reconstruction over the rows that survived the merchant and date
\* filters.  Rows with a grand total of exactly zero are in no group and
\* create none; two other rows are in the same group exactly when they have
\* the same date string, the same normalized merchant and the same grand
\* total rounded to two decimals; a row whose item is blank or "TOTAL"
\* creates its group but is not among its items; every other row is in its
\* group's item list exactly once, in input order; the group's address, tax
\* and payment are those of its first row.
C5_Reconstruction ==
   Checked =>
      LET live == {i \in 1..Len(Survivors) : ~HasZeroTotal(Survivors[i])}
      IN  \* every group is the receipt of a row, and has the header of the first
          /\ \A g \in 1..Len(Groups) :
                \E i \in live :
                   /\ \A k \in live : ReceiptOf(Survivors[k]) = ReceiptOf(Survivors[i]) => i <= k
                   /\ Groups[g].Date = Survivors[i].Date
                   /\ Groups[g].Merchant = Survivors[i].Merchant
                   /\ Groups[g].GrandTotal = Survivors[i].GrandTotal
                   /\ Groups[g].Address = Survivors[i].Address
                   /\ Groups[g].Tax = Survivors[i].Tax
                   /\ Groups[g].Payment = Survivors[i].Payment
                   \* its items are the item rows of that receipt, in input order
                   /\ LET items == Groups[g].items
                          mine  == {k \in live : /\ ReceiptOf(Survivors[k]) = ReceiptOf(Survivors[i])
                                                  /\ ~IsTotalOrBlank(Survivors[k].Item)}
                      IN  /\ Len(items) = Cardinality(mine)
                          /\ {items[n].index : n \in 1..Len(items)} =
                                {Survivors[k].index : k \in mine}
                          /\ \A m, n \in 1..Len(items) : m < n => items[m].index < items[n].index
                          /\ \A n \in 1..Len(items) :
                                items[n].Item = StrStrip(ledger[items[n].index].Item)
          \* every row with a non-zero total has exactly one group
          /\ \A i \in live :
                Cardinality({g \in 1..Len(Groups) :
                               << Groups[g].Date, Groups[g].Merchant,
                                  RoundedTotal(Groups[g].GrandTotal) >> = ReceiptOf(Survivors[i])}) = 1
          \* groups come in first-seen order
          /\ \A g, h \in 1..Len(Groups) :
                g < h =>
                   \E i \in live :
                      /\ ReceiptOf(Survivors[i]) = << Groups[g].Date, Groups[g].Merchant,
                                                     RoundedTotal(Groups[g].GrandTotal) >>
                      /\ \A k \in live :
                            ReceiptOf(Survivors[k]) = << Groups[h].Date, Groups[h].Merchant,
                                                        RoundedTotal(Groups[h].GrandTotal) >>
                            => i < k

\* A receipt reconstructed from a "Total" line and an item row with another
\* address and a total that differs in the third decimal.
C5_Witness ==
   /\ Checked
   /\ Len(Survivors) = 2
   /\ Len(Groups) = 1
   /\ Survivors[1].Address # Survivors[2].Address
   /\ Survivors[1].GrandTotal # Survivors[2].GrandTotal
   /\ IsTotalOrBlank(Survivors[1].Item)
   /\ Len(Groups[1].items) = 1

\* C6: find_duplicate_receipts never raises; on an empty ledger it returns
\* the empty list; when the candidate's date does not parse as dd-mm-yyyy it
\* returns the empty list and has examined no ledger row.
C6_NeverRaises ==
   Checked =>
      /\ call.result.outcome = "return"
      /\ ledger = << >> => Duplicates = << >>
      /\ ~Strptime(Candidate.purchase_date, "dmy").ok
            => (Duplicates = << >> /\ call.result.examined = 0)

\* The receipt dated yyyy-mm-dd is checked against a ledger that holds it.
C6_Witness ==
   /\ Checked
   /\ Candidate = ReceiptIso
   /\ \E i \in 1..Len(ledger) : ledger[i].Date = ReceiptIso.purchase_date

(***************************************************************************)
(* The category normalizer: the properties                                 *)
(***************************************************************************)

\* "A" is 65, "Z" 90 and "a" 97.
RefLower(c) == IF 65 <= c /\ c <= 90 THEN c + (97 - 65) ELSE c

RECURSIVE RefTrimLeft(_)
RefTrimLeft(s) ==
   IF s = << >> THEN s
   ELSE IF IsSpace(Head(s)) THEN RefTrimLeft(Tail(s)) ELSE s

RECURSIVE RefTrimRight(_)
RefTrimRight(s) ==
   IF s = << >> THEN s
   ELSE IF IsSpace(s[Len(s)]) THEN RefTrimRight(SubSeq(s, 1, Len(s) - 1)) ELSE s

\* The reference: lower-case and trim; "ies" becomes "y"; otherwise a final
\* "s" that does not follow an "s" is dropped; otherwise nothing changes.
\* "e" is 101, "i" 105, "s" 115 and "y" 121.
RefNormalize(c) ==
   LET t == RefTrimRight(RefTrimLeft([i \in 1..Len(c) |-> RefLower(c[i])]))
       n == Len(t)
   IN  IF n >= 3 /\ t[n - 2] = 105 /\ t[n - 1] = 101 /\ t[n] = 115
       THEN [i \in 1..(n - 2) |-> IF i = n - 2 THEN 121 ELSE t[i]]
       ELSE IF n >= 1 /\ t[n] = 115 /\ ~(n >= 2 /\ t[n - 1] = 115)
            THEN [i \in 1..(n - 1) |-> t[i]]
            ELSE t

GroceryLower == S(<<"g", "r", "o", "c", "e", "r", "y">>)

ItemLower == S(<<"i", "t", "e", "m">>)

\* C7: for every string c, _normalize_category(c) is the reference: c
\* lower-cased and trimmed, a final "ies" replaced by "y", otherwise a final
\* "s" that is not part of "ss" dropped, otherwise unchanged; "Groceries" and
\* "Grocery" both give "grocery" and "Items" gives "item".
C7_NormalizeIsReference ==
   norm.done =>
      /\ norm.normalized = RefNormalize(norm.category)
      /\ norm.category \in {Groceries, Grocery} => norm.normalized = GroceryLower
      /\ norm.category = Items => norm.normalized = ItemLower

\* "Groceries" has been normalized.
C7_Witness == norm.done /\ norm.category = Groceries /\ norm.normalized = GroceryLower

\* C8 as claimed: the normalizer maps "Bus" to "bus".
C8_BusIsBus == norm.done /\ norm.category = Bus => norm.normalized = S(<<"b", "u", "s">>)

\* C8 as the code has it: the normalizer maps "Bus" to "bu", the final "s"
\* dropped as from any word that does not end in "ss".
C8_BusIsBu == norm.done /\ norm.category = Bus => norm.normalized = S(<<"b", "u">>)

\* "Bus" has been normalized.
C8_Witness == norm.done /\ norm.category = Bus

(***************************************************************************)
(* The budget status: the properties                                       *)
(***************************************************************************)

Report(b) == status.result.budgets[b]

\* The category of row i is the category of budget b after normalization.
SameCategory(b, i) == RefNormalize(ledger[i].Category) = RefNormalize(budgets[b].Category)

\* The window calculate_budget_spending computes for budget b.
WindowOf(b) ==
   BudgetWindow(budgets[b].Period, budgets[b].PeriodType,
                budgets[b].StartDate, budgets[b].EndDate, status.now)

\* The date of row i parses and lies in the window.
DateInWindow(window, i) ==
   LET date == parse_date(ledger[i].Date)
   IN  /\ date.ok
       /\ window.range_start <= Stamp(Midnight(date))
       /\ Stamp(Midnight(date)) <= window.range_end

RowsOf(b) ==
   LET window == WindowOf(b)
   IN  {i \in 1..Len(ledger) : SameCategory(b, i) /\ DateInWindow(window, i)}

\* The Total Price of a row; a blank one adds nothing.
PriceOf(i) == IF ledger[i].TotalPrice.isNum THEN ledger[i].TotalPrice.num ELSE 0

RECURSIVE SumOver(_, _)
SumOver(set, f) ==
   IF set = {} THEN 0
   ELSE LET x == CHOOSE y \in set : TRUE
        IN  f[x] + SumOver(set \ {x}, f)

\* spend / limit * 100 for a limit that is not zero.
Ratio100(spend, limit) ==
   IF limit > 0 THEN Percent(spend, limit) ELSE Percent(-spend, -limit)

\* Zero for a limit of zero, the ratio for every other limit.
ZeroAtZero(spend, limit) == IF limit = 0 THEN ZeroPercent ELSE Ratio100(spend, limit)

\* Zero for a limit of zero or less, the ratio for a positive limit.
ZeroUpToZero(spend, limit) == IF limit <= 0 THEN ZeroPercent ELSE Ratio100(spend, limit)

\* The status reports every budget as C9 says, with percentage_used given by
\* Pct.
StatusAgrees(Pct(_, _)) ==
   status.done =>
      /\ Len(status.result.budgets) = Len(budgets)
      /\ \A b \in 1..Len(budgets) :
            LET rows == RowsOf(b)
            IN  /\ Report(b).id = budgets[b].ID
                /\ Report(b).included = {i \in rows : ledger[i].TotalPrice.isNum}
                /\ Report(b).current_spend = SumOver(rows, [i \in rows |-> PriceOf(i)])
                /\ Report(b).percentage_used = Pct(Report(b).current_spend, budgets[b].Limit)
                /\ Report(b).is_exceeded = (Report(b).current_spend > budgets[b].Limit)
      /\ status.result.total_budget =
            SumOver(1..Len(budgets), [b \in 1..Len(budgets) |-> budgets[b].Limit])
      /\ status.result.total_spent =
            SumOver(1..Len(budgets), [b \in 1..Len(budgets) |-> Report(b).current_spend])

Eligible(b, i) ==
   /\ SameCategory(b, i)
   /\ parse_date(ledger[i].Date).ok
   /\ ledger[i].TotalPrice.isNum

\* The date lies in the month of now.
InMonthOf(date, now) == date.y = now.y /\ date.m = now.m

\* The Monday on or before a day.
MondayOf(date) == Ordinal(date.y, date.m, date.d) - Weekday(Ordinal(date.y, date.m, date.d))

\* The date lies in the Monday-to-Sunday week of now.
InWeekOf(date, now) == MondayOf(date) = MondayOf(now)

\* C10 as claimed: whatever the instant now, a row counts toward a
\* calendar_month budget if and only if its date lies from the first to the
\* last day of now's month, and toward a calendar_week budget if and only if
\* its date lies from the Monday to the Sunday of now's week; a row dated the
\* first day of the next month, or the following Monday, is never counted.
C10_CalendarWindowsEndOnLastDay ==
   status.done =>
      \A b \in 1..Len(budgets) : \A i \in 1..Len(ledger) :
         Eligible(b, i) =>
            /\ budgets[b].PeriodType = "calendar_month" =>
                  (i \in Report(b).included <=> InMonthOf(parse_date(ledger[i].Date), status.now))
            /\ budgets[b].PeriodType = "calendar_week" =>
                  (i \in Report(b).included <=> InWeekOf(parse_date(ledger[i].Date), status.now))

(***************************************************************************)
(* The analysis queries: the properties                                    *)
(***************************************************************************)

Asked(op) == reply.op = op

\* A date given as yyyy-mm-dd does not parse.
Unparseable(date_str) == ~Strptime(date_str, "ymd").ok

\* A custom range with a start or an end that does not parse.
Unresolved(period_type, start_date, end_date) ==
   /\ period_type = "custom"
   /\ start_date # EmptyStr
   /\ end_date # EmptyStr
   /\ Unparseable(start_date) \/ Unparseable(end_date)

\* The date of every row of the ledger parses.
AllDated == \A i \in 1..Len(ledger) : parse_date(ledger[i].Date).ok

\* The rows with a Total Price above zero.
Spent == {i \in 1..Len(ledger) : ledger[i].TotalPrice.isNum /\ ledger[i].TotalPrice.num > 0}

Total(rows) == SumOver(rows, [i \in rows |-> PriceOf(i)])

\* The sum of the amounts of total_by_period.
TrendTotal(trends) ==
   SumSeq([k \in 1..Len(trends.total_by_period) |-> trends.total_by_period[k].amount])

\* The rows dated in the month of now.
ThisMonth(now) == {i \in 1..Len(ledger) : InMonthOf(parse_date(ledger[i].Date), now)}

\* C11, calculate_budget_spending: with a custom range that does not parse,
\* the spending is the spending of period_type calendar_month on the same
\* ledger at the same instant.
C11_SpendingFallsBack ==
   (/\ Asked("calculate_budget_spending")
    /\ Unresolved(reply.query.period_type, reply.query.start_date, reply.query.end_date))
   => reply.result.total_spending =
         calculate_budget_spending(reply.query.category, reply.query.period, "calendar_month",
                                   EmptyStr, EmptyStr, ledger, reply.now).total_spending

\* C11, get_trends and get_category_analysis: with a custom range that does
\* not parse, what is counted is the spending of the rows of the month of
\* now, on a ledger whose dates all parse.
C11_AnalysisFallsBack ==
   (/\ AllDated
    /\ Asked("get_trends") \/ Asked("get_category_analysis")
    /\ reply.query.filter = CustomBadStart \/ reply.query.filter = CustomBadEnd)
   => (IF Asked("get_trends") THEN TrendTotal(reply.result) ELSE reply.result.total_spending)
         = Total(Spent \cap ThisMonth(reply.now))

\* C11 as claimed: whenever a custom date range cannot be resolved, the
\* operation uses the calendar-month window: calculate_budget_spending
\* returns what it returns for calendar_month, and get_trends and
\* get_category_analysis count exactly the rows of the current month.
C11_CustomFallsBackToCalendarMonth == C11_SpendingFallsBack /\ C11_AnalysisFallsBack

\* The total a get_trends or get_category_analysis reply counts.
Counted ==
   IF Asked("get_trends") THEN TrendTotal(reply.result) ELSE reply.result.total_spending

\* The rows dated in the month before the month of now.
LastMonth(now) ==
   {i \in 1..Len(ledger) :
      LET date == parse_date(ledger[i].Date)
      IN  date.y = PreviousMonth(now).y /\ date.m = PreviousMonth(now).m}

\* C12 as claimed: whatever the instant now, the last_month shortcut of
\* get_trends and get_category_analysis selects exactly the rows dated from
\* the first through the last day of the previous calendar month; here on a
\* ledger whose dates all parse, by the spending counted.
C12_LastMonthIsPreviousMonth ==
   (/\ AllDated
    /\ Asked("get_trends") \/ Asked("get_category_analysis")
    /\ reply.query.filter.date_filter = "last_month")
   => Counted = Total(Spent \cap LastMonth(reply.now))

\* The rows of the ledger whose date parses, in their order.
DatedRows == SelectSeq(ledger, LAMBDA row : parse_date(row.Date).ok)

\* What the operation asked returns on the rows given.
AnswerOn(receipts) ==
   IF Asked("get_trends")
   THEN get_trends(reply.query.period, reply.query.filter.date_filter,
                   reply.query.filter.start_date, reply.query.filter.end_date,
                   receipts, reply.now)
   ELSE IF Asked("get_forecast")
   THEN get_forecast(receipts, reply.now)
   ELSE get_category_analysis(reply.query.filter.date_filter, reply.query.filter.start_date,
                              reply.query.filter.end_date, reply.query.categories,
                              reply.query.min_amount, reply.query.max_amount,
                              receipts, reply.now)

\* C13 as claimed: in get_trends, get_forecast and get_category_analysis a
\* row whose date parses in neither format is skipped and contributes to no
\* bucket, total or count: the answer is the answer on the ledger without
\* such rows, and when no row has a date that parses it is the answer on an
\* empty ledger.
C13_UndatedRowsAreSkipped ==
   (Asked("get_trends") \/ Asked("get_forecast") \/ Asked("get_category_analysis"))
   => /\ reply.result = AnswerOn(DatedRows)
      /\ DatedRows = << >> => reply.result = AnswerOn(<< >>)

\* The key YYYY-MM of a year and a month, digit by digit.
KeyOf(y, m) ==
   << 48 + (y \div 1000), 48 + ((y \div 100) % 10), 48 + ((y \div 10) % 10), 48 + (y % 10),
      45, 48 + (m \div 10), 48 + (m % 10) >>

\* The rows of category c with an amount above zero whose date parses and
\* lies in the month with key m.
RowsIn(c, m) ==
   {i \in Spent :
      /\ ledger[i].Category = c
      /\ parse_date(ledger[i].Date).ok
      /\ KeyOf(parse_date(ledger[i].Date).y, parse_date(ledger[i].Date).m) = m}

\* The points of a series with key m.
PointsAt(series, m) == {k \in 1..Len(series) : series[k].date = m}

Ascending(series) ==
   \A k \in 1..(Len(series) - 1) : StrLess(series[k].date, series[k + 1].date)

\* The amount of a series at key m, zero where it has no point.
AmountAt(series, m) ==
   SumSeq([k \in 1..Len(series) |-> IF series[k].date = m THEN series[k].amount ELSE 0])

\* Monthly trends in which every series has its points exactly at the months
\* where RowsIn has rows, with their sum, in ascending order, and
\* total_by_period adds up the series.
MonthlyBuckets(trends) ==
   LET every_category == trends.categories \cup {ledger[i].Category : i \in 1..Len(ledger)}
       every_month    == {trends.total_by_period[k].date : k \in 1..Len(trends.total_by_period)}
                         \cup {KeyOf(parse_date(ledger[i].Date).y, parse_date(ledger[i].Date).m) :
                                 i \in {j \in 1..Len(ledger) : parse_date(ledger[j].Date).ok}}
                         \cup UNION {{trends.data[c][k].date : k \in 1..Len(trends.data[c])} :
                                       c \in trends.categories}
       SeriesOf(c)    == IF c \in trends.categories THEN trends.data[c] ELSE << >>
   IN  /\ \A c \in every_category :
             /\ Ascending(SeriesOf(c))
             /\ \A m \in every_month :
                   /\ Cardinality(PointsAt(SeriesOf(c), m)) = (IF RowsIn(c, m) # {} THEN 1 ELSE 0)
                   /\ AmountAt(SeriesOf(c), m) = Total(RowsIn(c, m))
       /\ Ascending(trends.total_by_period)
       /\ \A m \in every_month :
             /\ Cardinality(PointsAt(trends.total_by_period, m)) <= 1
             /\ AmountAt(trends.total_by_period, m)
                   = SumOver(trends.categories,
                             [c \in trends.categories |-> AmountAt(trends.data[c], m)])

MonthlyUnfiltered ==
   /\ Asked("get_trends")
   /\ reply.query.period = "monthly"
   /\ reply.query.filter = NoFilter

\* C14 as claimed: get_trends(period="monthly") with no date filter: data[c]
\* has a point for month m if and only if some row of category c dated in m
\* has a numeric amount above zero, the point's amount is the sum of those
\* amounts, every series is in ascending order of its keys, and
\* total_by_period[m] is the sum over the categories of data[c][m]; two
\* Dining rows of 10 and 20 in January 2025 give the one point 2025-01 = 30.
C14_MonthlyBuckets ==
   MonthlyUnfiltered =>
      /\ MonthlyBuckets(reply.result)
      /\ ledger = TwoDining =>
            /\ reply.result.categories = {Dining}
            /\ reply.result.data[Dining] = << [date |-> KeyOf(2025, 1), amount |-> 30000] >>
            /\ reply.result.total_by_period = << [date |-> KeyOf(2025, 1), amount |-> 30000] >>

\* The same on a ledger whose dates all parse.
C14_MonthlyBucketsOfDatedRows == AllDated => C14_MonthlyBuckets

\* Row i is dated within the 90 days up to the day of now.
Trailing90(i, now) ==
   LET date == parse_date(ledger[i].Date)
       age  == Ordinal(now.y, now.m, now.d) - Ordinal(date.y, date.m, date.d)
   IN  date.ok /\ 0 <= age /\ age <= 90

\* The rows a forecast for category c rests on, and their months.
ForecastRows(c, now) == {i \in Spent : ledger[i].Category = c /\ Trailing90(i, now)}

ForecastMonths(c, now) ==
   {KeyOf(parse_date(ledger[i].Date).y, parse_date(ledger[i].Date).m) : i \in ForecastRows(c, now)}

\* The forecast has one entry for every category with rows to rest on, the
\* entry's total is the sum of those rows over the number of their months,
\* and total_forecast and confidence are as C15 says.
ForecastRestsOn(forecast, now) ==
   LET entries == forecast.forecasts
       named   == {entries[k].category : k \in 1..Len(entries)}
   IN  /\ named = {c \in {ledger[i].Category : i \in 1..Len(ledger)} : ForecastRows(c, now) # {}}
       /\ Cardinality(named) = Len(entries)
       /\ \A k \in 1..Len(entries) :
             entries[k].total.num * Cardinality(ForecastMonths(entries[k].category, now))
                = Total(ForecastRows(entries[k].category, now)) * entries[k].total.den
       /\ forecast.total_forecast = FracSum([k \in 1..Len(entries) |-> entries[k].total])
       /\ named # {} => forecast.confidence.num * 10 = 7 * forecast.confidence.den

\* C15 as claimed: get_forecast considers only rows dated within the
\* trailing 90 days with a numeric amount above zero; the forecast of a
\* category is the sum of its per-month totals over the number of its months;
\* total_forecast is the sum of the forecasts; confidence is 0.7 when some
\* category has data; three months of Groceries of 100, 150 and 50 give a
\* forecast of 100.  On a ledger whose dates all parse.
C15_ForecastOfTrailing90Days ==
   (Asked("get_forecast") /\ AllDated) =>
      /\ ForecastRestsOn(reply.result, reply.now)
      /\ (ledger = ThreeMonths /\ \A i \in 1..Len(ledger) : Trailing90(i, reply.now)) =>
            /\ Len(reply.result.forecasts) = 1
            /\ reply.result.forecasts[1].category = Groceries
            /\ reply.result.forecasts[1].average = [num |-> 100000, den |-> 1]

\* The same on a ledger with no row dated after the day of now.
C15_ForecastWithoutLaterRows ==
   (/\ Asked("get_forecast")
    /\ \A i \in 1..Len(ledger) :
       parse_date(ledger[i].Date).ok =>
          Ordinal(parse_date(ledger[i].Date).y, parse_date(ledger[i].Date).m,
                  parse_date(ledger[i].Date).d)
             <= Ordinal(reply.now.y, reply.now.m, reply.now.d))
   => C15_ForecastOfTrailing90Days

\* Row i passes the filter of lines 179-185: its date, or the current time
\* when the date does not parse, is not earlier than 90 days before now.
Recent(i, now) ==
   LET date == parse_date(ledger[i].Date)
   IN  ~date.ok \/ Stamp(Midnight(date)) >= Stamp(now) - 90 * SecondsPerDay

\* C16 as claimed: every result of get_forecast, for every ledger content,
\* an empty ledger and a ledger with no row in the trailing 90 days included,
\* has based_on_months = 3.
C16_AlwaysThreeMonths == Asked("get_forecast") => reply.result.based_on_months = 3

\* C16 as the code has it: based_on_months is 3 when some row of the ledger
\* passes the 90-day filter, however many months have data, and 0 when the
\* ledger is empty or no row passes.
C16_ThreeMonthsWhenRecentRows ==
   Asked("get_forecast") =>
      reply.result.based_on_months =
         (IF \E i \in 1..Len(ledger) : Recent(i, reply.now) THEN 3 ELSE 0)

\* A forecast on a ledger that has rows, none of them recent, reports 0
\* months.
C16_Witness ==
   /\ Asked("get_forecast")
   /\ ledger # << >>
   /\ \A i \in 1..Len(ledger) : ~Recent(i, reply.now)
   /\ reply.result.based_on_months = 0

\* C17: in every get_category_analysis result, whatever the date, category
\* and amount filters: the totals of the returned categories sum to
\* total_spending; each percentage is total / total_spending * 100, so that
\* the percentages sum to 100 when total_spending is above zero; the
\* categories are in descending order of total; top_category is the first
\* category, and the literal "None" when no category is returned.
C17_AnalysisAddsUp ==
   Asked("get_category_analysis") =>
      LET returned == reply.result.categories
          spending == reply.result.total_spending
      IN  /\ SumSeq([k \in 1..Len(returned) |-> returned[k].total]) = spending
          /\ spending > 0 =>
                /\ \A k \in 1..Len(returned) :
                      returned[k].percentage = Fraction(returned[k].total * 100, spending)
                /\ FracSum([k \in 1..Len(returned) |-> returned[k].percentage])
                      = [num |-> 100, den |-> 1]
          /\ \A k \in 1..(Len(returned) - 1) : returned[k].total >= returned[k + 1].total
          /\ returned # << >> => reply.result.top_category = returned[1].category
          /\ returned = << >> => reply.result.top_category = NoneStr

\* An analysis with an amount filter returns two categories, the one that
\* appears second in the ledger first.
C17_Witness ==
   /\ Asked("get_category_analysis")
   /\ reply.query.min_amount.set
   /\ Len(reply.result.categories) = 2
   /\ reply.result.categories[1].total > reply.result.categories[2].total
   /\ ledger[1].Category = reply.result.categories[2].category
   /\ reply.result.top_category = reply.result.categories[1].category

(***************************************************************************)
(* The goals' progress: the properties                                     *)
(***************************************************************************)

\* The goal of the reply with another amount stored for it.
StoredOtherwise == [reply.goal EXCEPT !.current_amount = reply.goal.current_amount + 1000]

\* C18 as claimed: for every goal with auto_track true, whatever its
\* goal_type and whatever the transaction and ledger rows hold,
\* calculate_goal_progress returns an amount recomputed from the ledger and
\* the goal's transactions: the stored current_amount never influences what
\* is returned, the same goal with another stored amount gets the same
\* answer.
C18_StoredAmountIsIgnored ==
   (Asked("calculate_goal_progress") /\ reply.goal.auto_track)
   => reply.result = calculate_goal_progress(StoredOtherwise, transactions, ledger, reply.now)

\* The same for goals of the types savings and spending_limit when every
\* Amount of the "Goal Transactions" sheet is a number.
C18_StoredAmountIsIgnoredForKnownTypes ==
   (/\ Asked("calculate_goal_progress")
    /\ reply.goal.goal_type \in {"savings", "spending_limit"}
    /\ \A k \in 1..Len(transactions) : transactions[k].Amount.isNum)
   => C18_StoredAmountIsIgnored

\* An auto-tracked spending_limit goal with a category was asked for.
LimitAsked ==
   /\ Asked("calculate_goal_progress")
   /\ reply.goal.auto_track
   /\ reply.goal.goal_type = "spending_limit"
   /\ reply.goal.category # EmptyStr
   /\ Strptime(reply.goal.target_date, "ymd").ok

TargetDate == Strptime(reply.goal.target_date, "ymd")

TargetThisMonth == InMonthOf(TargetDate, reply.now)

\* What the two branches count on this ledger for the goal's category.
MonthlyBranch ==
   calculate_budget_spending(reply.goal.category, "monthly", "calendar_month",
                             EmptyStr, EmptyStr, ledger, reply.now)

HistoricalBranch == HistoricalSpending(reply.goal.category, TargetDate, ledger)

\* Row i has a number for its Total Price and a date that both branches
\* accept: in the month of now and not after the target date.
InBothRanges(i) ==
   LET date == parse_date(ledger[i].Date)
   IN  /\ ledger[i].TotalPrice.isNum
       /\ date.ok
       /\ InMonthOf(date, reply.now)
       /\ Ordinal(date.y, date.m, date.d) <= Ordinal(TargetDate.y, TargetDate.m, TargetDate.d)

LowerOf(s) == [k \in 1..Len(s) |-> RefLower(s[k])]

\* The amounts of the two branches: the calendar-month budget spending when
\* the target date is in the month of now, otherwise the sum of Total Price
\* over the rows of the category dated on or before the target date, with
\* lower(strip(row category)) = lower(goal category) for "of the category".
C19_BranchAmounts ==
   LimitAsked =>
      reply.result =
         (IF TargetThisMonth
          THEN MonthlyBranch.total_spending
          ELSE Total({i \in 1..Len(ledger) :
                        /\ LowerOf(RefTrimRight(RefTrimLeft(ledger[i].Category)))
                              = LowerOf(reply.goal.category)
                        /\ parse_date(ledger[i].Date).ok
                        /\ Ordinal(parse_date(ledger[i].Date).y, parse_date(ledger[i].Date).m,
                                   parse_date(ledger[i].Date).d)
                              <= Ordinal(TargetDate.y, TargetDate.m, TargetDate.d)}))

\* A row whose date and amount both branches accept is counted by the one if
\* and only if it is counted by the other.
C19_OneMatchingRule ==
   LimitAsked =>
      \A i \in 1..Len(ledger) :
         InBothRanges(i) => (i \in MonthlyBranch.included <=> i \in HistoricalBranch.included)

\* C19 as claimed: for an auto-tracked spending_limit goal with a category,
\* the amount is the calendar-month budget spending of the category when the
\* target date is in the current month, and otherwise the sum of Total Price
\* over the rows of the category dated on or before the target date; and a
\* row is "of the category" under the same rule in both branches, so that no
\* row is matched in the one and unmatched in the other (goal category
\* "Grocery", row category "Groceries").
C19_SpendingLimitProgress == C19_BranchAmounts /\ C19_OneMatchingRule

(***************************************************************************)
(* Confirming a receipt: the properties                                    *)
(***************************************************************************)

\* The step is a confirm_receipt request being answered.
ConfirmAnswered == reply = NoReply /\ reply' # NoReply /\ reply'.op = "confirm_receipt"

\* The receipt id of the request is known when the request arrives.
KnownId == reply'.receipt_id \in jobs \cup receipts_storage

\* What find_duplicate_receipts returns for the request's receipt when the
\* request arrives.
DuplicatesFound == find_duplicate_receipts(Receipts[reply'.rid], ledger, matcher).duplicates

NothingSaved == UNCHANGED << ledger, jobs, receipts_storage >>

\* C20: duplicate detection is advisory in confirm_receipt.  For a known
\* receipt id, a confirm without force_save for which find_duplicate_receipts
\* returns a non-empty list appends no row, leaves the jobs and the stored
\* receipts as they were and answers success = false with duplicate_detected
\* = true; the same confirm with force_save appends one row per line item
\* whatever the duplicates, unless the sheet refuses the rows, which answers
\* 500 and appends nothing; a confirm for an unknown id answers 404 and
\* appends nothing.
C20_DuplicatesAreAdvisory ==
   [][ConfirmAnswered =>
         /\ (KnownId /\ ~reply'.force_save /\ DuplicatesFound # << >>) =>
               /\ NothingSaved
               /\ reply'.status_code = 200
               /\ reply'.body.success = FALSE
               /\ reply'.body.duplicate_detected = TRUE
         /\ (KnownId /\ reply'.force_save /\ reply'.saved) =>
               /\ Len(ledger') = Len(ledger) + Len(Receipts[reply'.rid].line_items)
               /\ ledger' = ledger \o ReceiptRows(Receipts[reply'.rid])
               /\ reply'.status_code = 200
               /\ reply'.body.success = TRUE
         /\ (KnownId /\ reply'.force_save /\ ~reply'.saved) =>
               /\ NothingSaved
               /\ reply'.status_code = 500
         /\ ~KnownId =>
               /\ NothingSaved
               /\ reply'.status_code = 404]_vars

\* Receipt B is in the ledger twice: the second confirm, with force_save, was
\* answered with success although the first had saved the same receipt.
C20_Witness ==
   /\ Asked("confirm_receipt")
   /\ reply.force_save
   /\ reply.rid = 2
   /\ reply.status_code = 200
   /\ reply.body.success
   /\ ledger = ReceiptRows(ReceiptB) \o ReceiptRows(ReceiptB)

\* Receipt B is in the ledger once and a confirm of it without force_save was
\* answered with duplicate_detected.
C20_WitnessStopped ==
   /\ Asked("confirm_receipt")
   /\ ~reply.force_save
   /\ reply.rid = 2
   /\ reply.status_code = 200
   /\ ~reply.body.success
   /\ reply.body.duplicate_detected
   /\ ledger = ReceiptRows(ReceiptB)

(***************************************************************************)
(* The category normalizer applied twice: the properties                   *)
(***************************************************************************)

\* A space inside the label, between two other characters.
InnerSpace(c) == \E i \in 2..(Len(StrStrip(c)) - 1) : IsSpace(StrStrip(c)[i])

\* C29 as claimed: for every string c, with or without whitespace inside or
\* at its end, _normalize_category(_normalize_category(c)) is
\* _normalize_category(c).
C29_NormalizeIsIdempotent ==
   norm.done => normalize_category(norm.normalized) = norm.normalized

\* C29 on the strings without a space inside: normalizing twice is
\* normalizing once.
C29_IdempotentWithoutInnerSpace ==
   norm.done /\ ~InnerSpace(norm.category) =>
      normalize_category(norm.normalized) = norm.normalized

(***************************************************************************)
(* Duplicate detection while receipts are appended: the properties         *)
(***************************************************************************)

\* The rows of receipt rid stand in rows, one after the other.
RowsIncluded(rid, rows) ==
   \E i \in 1..Len(rows) :
      /\ i + Len(ReceiptRows(Receipts[rid])) - 1 <= Len(rows)
      /\ SubSeq(rows, i, i + Len(ReceiptRows(Receipts[rid])) - 1) = ReceiptRows(Receipts[rid])

\* find_duplicate_receipts(R) on a ledger of these rows reports a duplicate.
ReportedOn(rid, rows) == find_duplicate_receipts(Receipts[rid], rows, matcher).duplicates # << >>

\* A receipt with a total other than zero and an item that has a name.
Detectable(rid) ==
   /\ Receipts[rid].total_amounts.total # 0
   /\ \E k \in 1..Len(Receipts[rid].line_items) :
         StrStrip(Receipts[rid].line_items[k].item_name) # EmptyStr

\* The rows are those of receipts of the set, saved one after the other.
RECURSIVE SavedOneByOne(_, _)
SavedOneByOne(rows, rids) ==
   \/ rows = << >>
   \/ \E other \in rids :
         /\ Len(ReceiptRows(Receipts[other])) <= Len(rows)
         /\ SubSeq(rows, 1, Len(ReceiptRows(Receipts[other]))) = ReceiptRows(Receipts[other])
         /\ SavedOneByOne(SubSeq(rows, Len(ReceiptRows(Receipts[other])) + 1, Len(rows)), rids)

\* Receipt rid was reported when the ledger was its first n rows, and the
\* rows after them are receipts of the set saved since.
ReportedBefore(rid, n, rids) ==
   /\ Detectable(rid)
   /\ RowsIncluded(rid, SubSeq(ledger, 1, n))
   /\ ReportedOn(rid, SubSeq(ledger, 1, n))
   /\ SavedOneByOne(SubSeq(ledger, n + 1, Len(ledger)), rids)

\* C27 as claimed: once the rows of a receipt R with a non-zero total and a
\* named item are in the ledger and find_duplicate_receipts(R) reports a
\* duplicate, it reports one after every further sequence of receipts is
\* appended, R itself included.
C27_ReportedStaysReported ==
   \A rid \in Saved, n \in 1..Len(ledger) :
      ReportedBefore(rid, n, Saved) => ReportedOn(rid, ledger)

\* C27 when the receipts appended since have another date, merchant or total
\* than R: R stays reported.
C27_ReportedAfterOtherReceipts ==
   \A rid \in Saved, n \in 1..Len(ledger) :
      ReportedBefore(rid, n, Saved \ {rid}) => ReportedOn(rid, ledger)

(***************************************************************************)
(* The upload jobs: the properties                                         *)
(***************************************************************************)

\* The UploadJob objects: those of the store and those a confirm deleted.
Created == DOMAIN upload_job

\* How a status may change in one step.
StatusMoves(before, after) ==
   \/ after = before
   \/ before = "pending" /\ after = "processing"
   \/ before = "processing" /\ after \in Finished

\* Progress lies in 0..100; it is 100 with completed_at set exactly when the
\* status is COMPLETED or FAILED.
C24_ProgressAndCompletion ==
   \A receipt_id \in Created :
      /\ upload_job[receipt_id].status \in {"pending", "processing"} \cup Finished
      /\ upload_job[receipt_id].progress \in 0..100
      /\ (upload_job[receipt_id].progress = 100 /\ upload_job[receipt_id].completed_at)
            <=> upload_job[receipt_id].status \in Finished

\* One step of a job: the status moves along PENDING, PROCESSING, COMPLETED
\* or FAILED, the last two are kept, progress does not decrease.
C24_StatusMoves ==
   \A receipt_id \in Created :
      /\ receipt_id \in DOMAIN upload_job'
      /\ StatusMoves(upload_job[receipt_id].status, upload_job'[receipt_id].status)
      /\ upload_job'[receipt_id].progress >= upload_job[receipt_id].progress

\* C24: along create_job and process_upload a job's status only moves
\* PENDING -> PROCESSING -> COMPLETED or PENDING -> PROCESSING -> FAILED;
\* COMPLETED and FAILED are absorbing; progress never decreases and stays
\* within 0..100; progress is 100 and completed_at is set if and only if the
\* status is COMPLETED or FAILED.
C24_JobLifecycle == []C24_ProgressAndCompletion /\ [][C24_StatusMoves]_vars

\* One job has run to COMPLETED and another to FAILED.
C24_Witness ==
   \E done \in Created, failed \in Created :
      /\ upload_job[done].status = "completed"
      /\ upload_job[done].progress = 100
      /\ tasks[done].pc = "done"
      /\ upload_job[failed].status = "failed"
      /\ upload_job[failed].completed_at

\* The job of the id is in the store and its process_upload is scheduled.
Scheduled(receipt_id) == receipt_id \in jobs /\ receipt_id \in DOMAIN tasks

\* A COMPLETED job had a receipt from the extractor and holds receipt_data.
C25_CompletedHasReceipt ==
   \A receipt_id \in Created :
      upload_job[receipt_id].status = "completed" =>
         /\ tasks[receipt_id].extraction = "receipt"
         /\ upload_job[receipt_id].receipt_data # None

\* C25: every job that was created and is not deleted eventually reaches
\* COMPLETED or FAILED once process_upload is scheduled, whatever the
\* extraction gives (a receipt, no receipt, an exception); it reaches
\* COMPLETED only when the extractor returned a receipt, and receipt_data is
\* set then.
C25_JobsFinish ==
   /\ \A receipt_id \in ReceiptIds :
         Scheduled(receipt_id) ~>
            (receipt_id \notin jobs \/ upload_job[receipt_id].status \in Finished)
   /\ []C25_CompletedHasReceipt

\* A job whose extraction raised is FAILED and still in the store, while the
\* job of the other upload is COMPLETED.
C25_Witness ==
   \E failed \in jobs, done \in jobs :
      /\ tasks[failed].pc = "done"
      /\ tasks[failed].extraction = "raises"
      /\ upload_job[failed].status = "failed"
      /\ tasks[done].extraction = "receipt"
      /\ upload_job[done].status = "completed"

\* The confirm_receipt request of this step saved the receipt.
ConfirmSaved == ConfirmAnswered /\ reply'.status_code = 200 /\ reply'.body.success

\* The receipt id is in the job store or among the stored receipts.
Present(receipt_id) == receipt_id \in jobs \cup receipts_storage

\* C26: after a confirm_receipt that saved, the receipt id is in neither the
\* job store nor the receipt storage and does not come back, also when
\* process_upload for it finishes later, so a later confirm for the id
\* answers 404 and appends nothing and each id leads to at most one append;
\* when the save fails the stored entry is kept and no row is appended.
C26_OneAppendPerReceiptId ==
   [][/\ ConfirmSaved =>
            /\ Present(reply'.receipt_id)
            /\ reply'.receipt_id \notin jobs' \cup receipts_storage'
            /\ ledger' = ledger \o ReceiptRows(Receipts[reply'.rid])
      /\ \A receipt_id \in issued : ~Present(receipt_id) => ~Present(receipt_id)'
      /\ (ConfirmAnswered /\ ~Present(reply'.receipt_id)) =>
            /\ reply'.status_code = 404
            /\ NothingSaved
      /\ (ConfirmAnswered /\ reply'.status_code = 500) =>
            /\ ~reply'.saved
            /\ NothingSaved]_vars

\* A confirm has saved the receipt of a job whose process_upload had not
\* finished; the coroutine has finished since and the id is in no store.
C26_Witness ==
   \E receipt_id \in issued :
      /\ receipt_id \in DOMAIN tasks
      /\ tasks[receipt_id].pc = "done"
      /\ upload_job[receipt_id].status = "processing"
      /\ upload_job[receipt_id].receipt_data = "extracted"
      /\ ~Present(receipt_id)
      /\ ledger = ReceiptRows(ReceiptB)

\* The step is a check_duplicates request being answered.
CheckAnswered == reply = NoReply /\ reply' # NoReply /\ reply'.op = "check_duplicates"

\* The id is known with an extracted receipt: a COMPLETED job of the store
\* that holds receipt_data, or a stored receipt.
KnownWithReceipt(receipt_id) ==
   \/ /\ receipt_id \in jobs
      /\ upload_job[receipt_id].status = "completed"
      /\ upload_job[receipt_id].receipt_data # None
   \/ receipt_id \in receipts_storage

\* C28 as claimed: check_duplicates answers with a duplicate report, not an
\* error, for every receipt id known with an extracted receipt, uploaded
\* asynchronously (a COMPLETED job) or synchronously (a stored receipt); it
\* answers 404 only for ids that are in neither store.
C28_CheckDuplicatesAnswersKnownIds ==
   [][CheckAnswered =>
         /\ KnownWithReceipt(reply'.receipt_id) =>
               /\ reply'.status_code = 200
               /\ reply'.body.has_duplicates = (reply'.body.count > 0)
         /\ reply'.status_code = 404 => ~Present(reply'.receipt_id)]_vars

\* C28 for the synchronous uploads and the unknown ids: a stored receipt gets
\* a report, an id in neither store gets 404.
C28_StoredReceiptsAreChecked ==
   [][CheckAnswered =>
         /\ reply'.receipt_id \in receipts_storage =>
               /\ reply'.status_code = 200
               /\ reply'.body.has_duplicates = (reply'.body.count > 0)
         /\ reply'.status_code = 404 <=> ~Present(reply'.receipt_id)
         /\ reply'.receipt_id \in jobs => reply'.status_code = 500]_vars

\* C30, first half: a job of the store has receipt_data only when its status
\* is COMPLETED.
C30_ReceiptDataOnlyWhenCompleted ==
   \A receipt_id \in jobs :
      upload_job[receipt_id].receipt_data # None => upload_job[receipt_id].status = "completed"

\* C30, second half: receipt_data written by a reprocess request is not
\* overwritten by the process_upload of the same job.
C30_ReprocessedDataIsKept ==
   \A receipt_id \in jobs :
      upload_job[receipt_id].receipt_data = "reprocessed" =>
         upload_job'[receipt_id].receipt_data = "reprocessed"

\* C30 as claimed: under any interleaving of upload, process_upload,
\* reprocess and status requests a job has non-null receipt_data only if its
\* status is COMPLETED, and receipt_data written by a reprocess request is
\* never overwritten afterwards by the still-running process_upload of the
\* same job.
C30_ReceiptDataIsConsistent ==
   []C30_ReceiptDataOnlyWhenCompleted /\ [][C30_ReprocessedDataIsKept]_vars

\* What get_upload_status answers agrees with get_receipt: whenever
\* get_receipt returns the receipt_data of a job, the job is COMPLETED.
C30_GetReceiptOnlyWhenCompleted ==
   (Asked("get_receipt") /\ reply.receipt_id \in jobs /\ reply.status_code = 200)
      => upload_job[reply.receipt_id].status = "completed"

(***************************************************************************)
(* The budget status while the ledger grows: the properties                *)
(***************************************************************************)

\* get_budget_status has returned its status.
StatusReturned == Asked("get_budget_status") /\ reply.outcome = "returned"

\* Two reports of budgets with the same category, period and dates.
SamePeriodAndCategory(one, other) ==
   /\ one.category = other.category
   /\ one.period = other.period
   /\ one.period_type = other.period_type
   /\ one.start_date = other.start_date
   /\ one.end_date = other.end_date

\* C22: get_budget_status reads the Receipts sheet once and evaluates every
\* budget of its response on that one snapshot: the read is counted once,
\* and two budgets with the same category and period in one response report
\* the same current_spend, also when rows are appended during the call.
C22_OneSnapshotPerStatus ==
   StatusReturned =>
      /\ reply.reads = 1
      /\ \A one \in 1..Len(reply.result.budgets), other \in 1..Len(reply.result.budgets) :
            SamePeriodAndCategory(reply.result.budgets[one], reply.result.budgets[other])
               => reply.result.budgets[one].current_spend
                     = reply.result.budgets[other].current_spend

\* The half of C22 on the amounts alone: budgets with the same category and
\* period in one response report the same current_spend.
C22_SameSpendInOneStatus ==
   StatusReturned =>
      \A one \in 1..Len(reply.result.budgets), other \in 1..Len(reply.result.budgets) :
         SamePeriodAndCategory(reply.result.budgets[one], reply.result.budgets[other])
            => reply.result.budgets[one].current_spend
                  = reply.result.budgets[other].current_spend

\* What the code does: the Receipts sheet is read once for every budget of
\* the response, and each report is the report of its budget on a prefix of
\* the ledger the call ends on.
C22_OneReadPerBudget ==
   StatusReturned =>
      /\ reply.reads = Len(reply.result.budgets)
      /\ \A b \in 1..Len(reply.result.budgets) :
            \E n \in 0..Len(ledger) :
               reply.result.budgets[b].current_spend
                  = BudgetReport(budgets[b], SubSeq(ledger, 1, n), reply.now).current_spend

\* C23: get_budget_status returns a status for every content of the Budgets
\* and Receipts sheets, a blank Limit cell included: no exception leaves it.
C23_BudgetStatusNeverRaises ==
   Asked("get_budget_status") => reply.outcome = "returned"

\* What the code does on the rows save_budget writes: with a number in every
\* Limit cell the status is returned.
C23_NumericLimitsReturn ==
   (Asked("get_budget_status")
       /\ \A b \in 1..Len(budgets) : ~LimitRaises(budgets[b]))
      => reply.outcome = "returned"

(***************************************************************************)
(* The duplicate check and the append of a confirm: the properties         *)
(***************************************************************************)

\* A confirm without force_save is answered.
CheckedConfirmAnswered == Asked("confirm_receipt") /\ ~reply.force_save

\* The confirm that is answered ran alone: the sheet it appended to is the
\* sheet its duplicate check read.
RanAlone == reply.seen = Len(reply.before)

\* The rows of the receipt were on the sheet before the confirm appended.
EarlierCopy(rid, rows) ==
   \E n \in 1..Len(rows) :
      /\ n + Len(ReceiptRows(Receipts[rid])) - 1 <= Len(rows)
      /\ SubSeq(rows, n, n + Len(ReceiptRows(Receipts[rid])) - 1) = ReceiptRows(Receipts[rid])

\* The confirm was answered with duplicate_detected and appended nothing.
StoppedAsDuplicate ==
   /\ reply.status_code = 200
   /\ ~reply.body.success
   /\ reply.body.duplicate_detected
   /\ ledger = reply.before

\* The confirm was answered with success and appended its rows.
AppendedItsRows ==
   /\ reply.status_code = 200
   /\ reply.body.success
   /\ ledger = reply.before \o ReceiptRows(Receipts[reply.rid])

\* C21, second half: when two confirms of receipts with identical content
\* run one after the other, the second is answered with duplicate_detected
\* and appends nothing.
C21_SecondConfirmIsStopped ==
   (CheckedConfirmAnswered /\ RanAlone /\ EarlierCopy(reply.rid, reply.before))
      => StoppedAsDuplicate

\* C21, first half: no confirm without force_save appends a second copy
\* behind a copy that another confirm appended after its duplicate check.
\* The two store operations are not atomic, and this state is reached.
C21_CheckAndAppendAreAtomic ==
   ~(/\ CheckedConfirmAnswered
     /\ ~RanAlone
     /\ EarlierCopy(reply.rid, reply.before)
     /\ AppendedItsRows)

\* What the code does for a receipt dated dd-mm-yyyy with one earlier copy
\* on the sheet: the confirm that runs alone is stopped.
C21_SecondConfirmOfDatedReceiptIsStopped ==
   (/\ CheckedConfirmAnswered
    /\ RanAlone
    /\ reply.rid = 2
    /\ reply.before = ReceiptRows(Receipts[2]))
      => StoppedAsDuplicate

====
